---- MODULE Spec2Model ----
(***************************************************************************)
(* DeskBot coordination layer: the shared state bus (latest-frame cell,    *)
(* command queue, flags), the dead-zone motor controller, the vision loop, *)
(* the voice producer and its parser, the command router, the MJPEG        *)
(* server and the music player thread.                                     *)
(*                                                                         *)
(* The specifications share the module's variables:                        *)
(*   Spec          VoiceLoop -> command queue -> CommandRouter, shutdown   *)
(*   SpecMotor     the motor controller called with sampled offsets        *)
(*   SpecFrame     set_frame / get_frame, one publisher and N readers      *)
(*   SpecFrameApi  the same cell with a caller that writes into its copies *)
(*   SpecPop(Fair) callers of get_command with and without a timeout       *)
(*   SpecParse     parse_command applied to sampled utterances             *)
(*   SpecVision    run_vision_tracker with sampled detections, shutdown    *)
(*   SpecStream(Fair) run_web_server, its viewers and the frame publisher  *)
(*   SpecPlayback  CommandRouter -> music queue -> MusicPlayerThread       *)
(*   SpecLoops     every long-lived loop together with shutdown()          *)
(*   SpecMatch     find_best_match applied to sampled queries and indexes  *)
(*   SpecPlayer    _process_command applied to the thread object           *)
(*   SpecRouter    process_commands fed any command dicts, shutdown        *)
(***************************************************************************)
EXTENDS Integers, Sequences, FiniteSets

VARIABLES
    \* ---- motor_control.py (module state)
    MOTOR_AVAILABLE,   \* True when MotorKit() initialised
    motor1,            \* TRUE: a motor object, FALSE: None
    motor2,
    actuator,          \* [m1, m2: throttle values, raised: an exception escaped]
    lastCall,          \* history: the last motor call and its arguments
    before,            \* history: actuator as it was before the last call
    stopStreak         \* history: consecutive stop_motors calls (capped at 2)

    \* ---- shared_state.py: the latest-frame cell, and its callers
VARIABLES
    heap,              \* image buffers: object id -> pixels (<<>>: no such object)
    _frame,            \* SharedState._frame: an object id, or None
    _frame_lock,       \* the threads inside "with self._frame_lock"
    vpc,               \* publisher (VisionLoop): "capture", "have", "locked", "stored"
    vframe,            \* publisher's local frame
    rpc,               \* per reader: "idle", "locked", "copied", "got"
    rtmp,              \* per reader: the value get_frame is about to return
    held,              \* per reader: its local frame (the last value returned)
    stored,            \* history: pixels passed to the set_frame that last assigned _frame
    completed,         \* history: pixels passed to the last set_frame that returned
    got                \* history, per reader: what its last get_frame returned

    \* ---- shared_state.py command queue and flags; voice_commands.py; main.py
VARIABLES
    _command_queue,    \* SharedState._command_queue, head first
    _running,          \* SharedState._running
    _tracking_enabled, \* SharedState._tracking_enabled
    voicePc,           \* VoiceCommandThread.run: "setup", "top", "streaming",
                       \*   "backoff", "stopped", "disabled"
    voice_running,     \* VoiceCommandThread._running
    recognizer,        \* which KaldiRecognizer construction self.recognizer is
    routerPc,          \* process_commands: "check", "get", "dispatch", "done"
    command,           \* process_commands' local
    music_cmd_queue,   \* the playback command channel
    music_running,     \* MusicPlayerThread._running
    greetings,         \* say_greeting threads started
    shutPc,            \* shutdown(): "idle", "voice", "music", "motors", "done"
    pushed,            \* history: every command put on the queue, in order
    dispatched,        \* history: every command process_commands dispatched
    popPc,             \* a caller of get_command: "idle", "waiting", "returned"
    popTimeout,        \* ... the timeout it passed
    popResult          \* ... what it got back

motorVars == <<MOTOR_AVAILABLE, motor1, motor2, actuator, lastCall, before, stopStreak>>
frameVars == <<heap, _frame, _frame_lock, vpc, vframe, rpc, rtmp, held, stored, completed, got>>

cmdVars == <<_command_queue, _running, _tracking_enabled, voicePc, voice_running,
             recognizer, routerPc, command, music_cmd_queue, music_running,
             greetings, shutPc, pushed, dispatched>>
popVars == <<popPc, popTimeout, popResult>>

    \* ---- voice_commands.py: history of the recognizers the stream ran with
VARIABLES
    corrupt,           \* history: the recognizers in use when the stream raised
    heardWith          \* history: the recognizer that heard the last pushed command

histVars == <<corrupt, heardWith>>

    \* ---- voice_commands.parse_command called on a text
VARIABLES
    parsed,            \* a call has been made
    parseText,         \* its argument
    parseOut           \* what it returned

parseVars == <<parsed, parseText, parseOut>>

    \* ---- vision_tracker.run_vision_tracker and main
VARIABLES
    visPc,             \* "check", "read", "act", "publish", "finally", "done"
    faces,             \* the detector's boxes for the frame in hand
    iter,              \* history: what the current iteration has done so far
    mainPc             \* main: "vision" (in run_vision_tracker), "finally"

visVars == <<visPc, faces, iter, mainPc>>

    \* ---- web_stream.py: the server thread and its viewers
VARIABLES
    srvPc,             \* run_web_server: "check", "accept", "loop", "get", "closed"
    srvClient,         \* the viewer whose request the server thread is handling
    backlog,           \* connections waiting to be accepted, oldest first
    conn,              \* per viewer: "none", "pending", "streaming" (headers
                       \*   sent), "receiving" (frames sent), "gone", "closed"
    path               \* per viewer: the path it asked for

srvVars == <<srvPc, srvClient, backlog, conn, path>>

    \* ---- music_player.py: the playback thread
VARIABLES
    musPc,             \* run: "init", "check", "get", "cleanup", "done", "disabled"
    musCommand,        \* the last command it took from its queue
    musLate            \* history: it began an iteration with shared.running cleared

musVars == <<musPc, musCommand, musLate>>

    \* ---- music_player.py: MusicPlayerThread's fields and the VLC player
VARIABLES
    player,            \* self.player: [made, state (get_state()), media, volume]
    current_song,      \* self.current_song: a position in music_files, 0 for None
    current_volume,    \* self.current_volume
    music_files,       \* self.music_files: the names of the indexed songs
    processed,         \* history: the messages taken from the command channel
    lastOp,            \* history: the last message processed and the fields before it
    playerWriters      \* history: the threads that have called into self.player

playVars == <<player, current_song, current_volume, music_files, processed, lastOp,
              playerWriters>>

    \* ---- main.say_greeting threads
VARIABLES
    speaking           \* say_greeting threads that have not finished

    \* ---- history of the tracking flag as VisionLoop meets it
VARIABLES
    gate               \* "on"; "off": cleared; "begun": an iteration has started
                       \*   since; "full": and has completed

    \* ---- music_player.find_best_match called on a query and a library
VARIABLES
    matched,           \* a call has been made
    matchQuery,        \* its arguments
    matchFiles,
    matchOut           \* what it returned: a position in matchFiles, 0 for None

matchVars == <<matched, matchQuery, matchFiles, matchOut>>

lateVars == <<playVars, speaking, gate, matchVars>>

\* the variables of the other components, which most actions leave alone
restVars == <<parseVars, visVars, srvVars, musVars, lateVars>>
moreVars == <<histVars, restVars>>

vars == <<motorVars, frameVars, cmdVars, popVars, moreVars>>

-----------------------------------------------------------------------------
(* Motor controller                                                         *)

DEAD_ZONE == 50
MOTOR_SPEED == 1
FRAME_WIDTH == 640
FRAME_HEIGHT == 480

\* how far beyond the dead-zone boundary the sampled offsets reach
Margin == 2

Mirror(S) == S \cup {-x : x \in S}

\* offsets around both dead-zone boundaries, the centre and the frame edge
OffsetsX == Mirror((DEAD_ZONE - Margin)..(DEAD_ZONE + Margin)) \cup Mirror({0, FRAME_WIDTH \div 2})
OffsetsY == Mirror((DEAD_ZONE - Margin)..(DEAD_ZONE + Margin)) \cup Mirror({0, FRAME_HEIGHT \div 2})

NoCall == [op |-> "none", dx |-> 0, dy |-> 0]

\* motorN.throttle = v ; on None the attribute assignment raises
SetThrottle(a, m, present, v) ==
    IF present THEN [a EXCEPT ![m] = v] ELSE [a EXCEPT !.raised = TRUE]

HorizontalThrottle_Inclusive(offset_x) ==
    IF offset_x >= DEAD_ZONE THEN -MOTOR_SPEED
    ELSE IF offset_x <= -DEAD_ZONE THEN MOTOR_SPEED
    ELSE 0

HorizontalThrottle_Swapped(offset_x) ==
    IF offset_x > DEAD_ZONE THEN MOTOR_SPEED
    ELSE IF offset_x < -DEAD_ZONE THEN -MOTOR_SPEED
    ELSE 0

HorizontalThrottle(offset_x) ==
    IF offset_x > DEAD_ZONE THEN -MOTOR_SPEED
    ELSE IF offset_x < -DEAD_ZONE THEN MOTOR_SPEED
    ELSE 0

VerticalThrottle_AsHorizontal(offset_y) ==
    IF offset_y > DEAD_ZONE THEN -MOTOR_SPEED
    ELSE IF offset_y < -DEAD_ZONE THEN MOTOR_SPEED
    ELSE 0

VerticalThrottle(offset_y) ==
    IF offset_y > DEAD_ZONE THEN MOTOR_SPEED
    ELSE IF offset_y < -DEAD_ZONE THEN -MOTOR_SPEED
    ELSE 0

control_motors_Unguarded(a, offset_x, offset_y) ==
    SetThrottle(SetThrottle(a, "m1", motor1, HorizontalThrottle(offset_x)),
                "m2", motor2, VerticalThrottle(offset_y))

control_motors(a, offset_x, offset_y) ==
    IF ~MOTOR_AVAILABLE THEN a
    ELSE LET h == IF motor1
                  THEN SetThrottle(a, "m1", motor1, HorizontalThrottle(offset_x))
                  ELSE a
         IN  IF motor2
             THEN SetThrottle(h, "m2", motor2, VerticalThrottle(offset_y))
             ELSE h

stop_motors_OnlyFirst(a) ==
    IF MOTOR_AVAILABLE
    THEN IF motor1 THEN SetThrottle(a, "m1", motor1, 0) ELSE a
    ELSE a

stop_motors(a) ==
    IF MOTOR_AVAILABLE
    THEN LET h == IF motor1 THEN SetThrottle(a, "m1", motor1, 0) ELSE a
         IN  IF motor2 THEN SetThrottle(h, "m2", motor2, 0) ELSE h
    ELSE a

\* module import: both handles exist exactly when MotorKit() succeeded
InitMotor ==
    /\ MOTOR_AVAILABLE \in BOOLEAN
    /\ motor1 = MOTOR_AVAILABLE
    /\ motor2 = MOTOR_AVAILABLE
    /\ actuator = [m1 |-> 0, m2 |-> 0, raised |-> FALSE]
    /\ lastCall = NoCall
    /\ before = actuator
    /\ stopStreak = 0

ControlMotors(offset_x, offset_y) ==
    /\ actuator' = control_motors(actuator, offset_x, offset_y)
    /\ lastCall' = [op |-> "control", dx |-> offset_x, dy |-> offset_y]
    /\ before' = actuator
    /\ stopStreak' = 0
    /\ UNCHANGED <<MOTOR_AVAILABLE, motor1, motor2>>
    /\ UNCHANGED <<frameVars, cmdVars, popVars>>
    /\ UNCHANGED moreVars

StopMotors ==
    /\ actuator' = stop_motors(actuator)
    /\ lastCall' = [op |-> "stop", dx |-> 0, dy |-> 0]
    /\ before' = actuator
    /\ stopStreak' = IF stopStreak < 2 THEN stopStreak + 1 ELSE 2
    /\ UNCHANGED <<MOTOR_AVAILABLE, motor1, motor2>>
    /\ UNCHANGED <<frameVars, cmdVars, popVars>>
    /\ UNCHANGED moreVars

CallControlMotors ==
    \E offset_x \in OffsetsX, offset_y \in OffsetsY : ControlMotors(offset_x, offset_y)

CallStopMotors == StopMotors

NextMotor == CallControlMotors \/ CallStopMotors

-----------------------------------------------------------------------------
(* Latest-frame cell: SharedState.set_frame / get_frame and their callers   *)

NumReaders == 2
NumImages == 2
NPix == 2

Readers == 1..NumReaders
Publisher == 0
Images == 1..NumImages
None == 0

\* one buffer each for _frame, the publisher's local and the copy being made,
\* and two per reader (its local and the value being returned)
MaxObj == 3 + 2 * NumReaders
ObjIds == 1..MaxObj

\* a captured image: every pixel carries the capture it came from
Whole(k) == [i \in 1..NPix |-> k]
\* what a caller writes when it draws on a buffer it holds: no captured value
Scribble == CHOOSE v \in 0..NumImages : v \notin Images

NewObj(h) == CHOOSE i \in ObjIds : h[i] = <<>> /\ \A j \in 1..(i - 1) : h[j] # <<>>

\* ndarray.copy(): a new buffer with the same pixels
CopyObj(h, ref) ==
    LET n == NewObj(h) IN [heap |-> [h EXCEPT ![n] = h[ref]], ref |-> n]

\* buffers no variable refers to any more are reclaimed
Collect(h, refs) == [i \in ObjIds |-> IF i \in refs THEN h[i] ELSE <<>>]

Refs(f, vf, tmp, hd) ==
    ({f, vf} \cup {tmp[r] : r \in Readers} \cup {hd[r] : r \in Readers}) \ {None}

\* the "with self._frame_lock" of set_frame and get_frame can be entered
LockFree_NoLock == TRUE

LockFree == _frame_lock = {}

\* self._frame = frame.copy() if frame is not None else None
set_frame(h, cur, frame) ==
    IF frame # None THEN CopyObj(h, frame) ELSE [heap |-> h, ref |-> None]

\* return self._frame.copy() if self._frame is not None else None
get_frame_NoCopy(h, cur) == [heap |-> h, ref |-> cur]

get_frame(h, cur) ==
    IF cur # None THEN CopyObj(h, cur) ELSE [heap |-> h, ref |-> None]

NoReturn == [val |-> <<>>, latest |-> <<>>, cell |-> <<>>]

InitFrame ==
    /\ heap = [i \in ObjIds |-> <<>>]
    /\ _frame = None
    /\ _frame_lock = {}
    /\ vpc = "capture"
    /\ vframe = None
    /\ rpc = [r \in Readers |-> "idle"]
    /\ rtmp = [r \in Readers |-> None]
    /\ held = [r \in Readers |-> None]
    /\ stored = <<>>
    /\ completed = <<>>
    /\ got = [r \in Readers |-> NoReturn]

\* ret, frame = cap.read() ... annotate: a fresh buffer holding image k
Capture(k) ==
    /\ vpc = "capture"
    /\ LET h0 == Collect(heap, Refs(_frame, None, rtmp, held))
           n == NewObj(h0)
       IN  /\ heap' = [h0 EXCEPT ![n] = Whole(k)]
           /\ vframe' = n
    /\ vpc' = "have"
    /\ UNCHANGED <<_frame, _frame_lock, rpc, rtmp, held, stored, completed, got>>
    /\ UNCHANGED <<motorVars, cmdVars, popVars>>
    /\ UNCHANGED moreVars

\* shared.set_frame(frame): enter the lock
SetFrameEnter ==
    /\ vpc = "have"
    /\ LockFree
    /\ _frame_lock' = _frame_lock \cup {Publisher}
    /\ vpc' = "locked"
    /\ UNCHANGED <<heap, _frame, vframe, rpc, rtmp, held, stored, completed, got>>
    /\ UNCHANGED <<motorVars, cmdVars, popVars>>
    /\ UNCHANGED moreVars

\* ... copy the argument and assign the cell
SetFrameStore ==
    /\ vpc = "locked"
    /\ LET res == set_frame(heap, _frame, vframe)
       IN  /\ _frame' = res.ref
           /\ heap' = Collect(res.heap, Refs(res.ref, vframe, rtmp, held))
    /\ stored' = heap[vframe]
    /\ vpc' = "stored"
    /\ UNCHANGED <<_frame_lock, vframe, rpc, rtmp, held, completed, got>>
    /\ UNCHANGED <<motorVars, cmdVars, popVars>>
    /\ UNCHANGED moreVars

\* ... leave the lock and return
SetFrameExit ==
    /\ vpc = "stored"
    /\ _frame_lock' = _frame_lock \ {Publisher}
    /\ completed' = heap[vframe]
    /\ vpc' = "capture"
    /\ UNCHANGED <<heap, _frame, vframe, rpc, rtmp, held, stored, got>>
    /\ UNCHANGED <<motorVars, cmdVars, popVars>>
    /\ UNCHANGED moreVars

\* frame = shared.get_frame(): enter the lock
GetFrameEnter(r) ==
    /\ rpc[r] \in {"idle", "got"}
    /\ LockFree
    /\ _frame_lock' = _frame_lock \cup {r}
    /\ rpc' = [rpc EXCEPT ![r] = "locked"]
    /\ UNCHANGED <<heap, _frame, vpc, vframe, rtmp, held, stored, completed, got>>
    /\ UNCHANGED <<motorVars, cmdVars, popVars>>
    /\ UNCHANGED moreVars

\* ... copy the cell
GetFrameCopy(r) ==
    /\ rpc[r] = "locked"
    /\ LET res == get_frame(heap, _frame)
       IN  /\ rtmp' = [rtmp EXCEPT ![r] = res.ref]
           /\ heap' = res.heap
    /\ rpc' = [rpc EXCEPT ![r] = "copied"]
    /\ UNCHANGED <<_frame, _frame_lock, vpc, vframe, held, stored, completed, got>>
    /\ UNCHANGED <<motorVars, cmdVars, popVars>>
    /\ UNCHANGED moreVars

\* ... leave the lock and return the copy into the caller's local
GetFrameExit(r) ==
    /\ rpc[r] = "copied"
    /\ _frame_lock' = _frame_lock \ {r}
    /\ held' = [held EXCEPT ![r] = rtmp[r]]
    /\ rtmp' = [rtmp EXCEPT ![r] = None]
    /\ heap' = Collect(heap, Refs(_frame, vframe, rtmp', held'))
    /\ got' = [got EXCEPT ![r] = [val |-> IF rtmp[r] = None THEN <<>> ELSE heap[rtmp[r]],
                                  latest |-> completed,
                                  cell |-> stored]]
    /\ rpc' = [rpc EXCEPT ![r] = "got"]
    /\ UNCHANGED <<_frame, vpc, vframe, stored, completed>>
    /\ UNCHANGED <<motorVars, cmdVars, popVars>>
    /\ UNCHANGED moreVars

\* the caller writes into the buffer get_frame returned to it
MutateReturned(r, i) ==
    /\ rpc[r] = "got"
    /\ held[r] # None
    /\ heap[held[r]][i] # Scribble
    /\ heap' = [heap EXCEPT ![held[r]][i] = Scribble]
    /\ UNCHANGED <<_frame, _frame_lock, vpc, vframe, rpc, rtmp, held, stored, completed, got>>
    /\ UNCHANGED <<motorVars, cmdVars, popVars>>
    /\ UNCHANGED moreVars

PublisherCapture == \E k \in Images : Capture(k)
ReaderEnter == \E r \in Readers : GetFrameEnter(r)
ReaderCopy == \E r \in Readers : GetFrameCopy(r)
ReaderExit == \E r \in Readers : GetFrameExit(r)

\* VisionLoop publishing, every StreamHandler polling; a StreamHandler only
\* encodes the frame it got and never writes into it
NextFrame ==
    \/ PublisherCapture
    \/ SetFrameEnter
    \/ SetFrameStore
    \/ SetFrameExit
    \/ ReaderEnter
    \/ ReaderCopy
    \/ ReaderExit

\* the same cell used by one publisher and one caller that also writes into
\* the buffers get_frame hands it
Caller == CHOOSE r \in Readers : \A q \in Readers : r <= q
CallerMutate == \E i \in 1..NPix : MutateReturned(Caller, i)

NextFrameApi ==
    \/ PublisherCapture
    \/ SetFrameEnter
    \/ SetFrameStore
    \/ SetFrameExit
    \/ GetFrameEnter(Caller)
    \/ GetFrameCopy(Caller)
    \/ GetFrameExit(Caller)
    \/ CallerMutate

-----------------------------------------------------------------------------
(* Command pipeline: VoiceLoop -> StateBus queue -> CommandRouter           *)

\* commands VoiceLoop may push in one run, and stream failures it may suffer
MaxPushed == 2
MaxRestarts == 2

Cmd(t, a, q) == [type |-> t, action |-> a, query |-> q]

\* what parse_command can return for a non-empty match ("none": no query)
Queries == {"none", "jazz"}
ParsedCommands ==
    {Cmd("greeting", "hello", "none")}
    \cup {Cmd("music", "play", q) : q \in Queries}
    \cup {Cmd("music", a, "none") : a \in {"pause", "stop"}}
    \cup {Cmd("volume", a, "none") : a \in {"up", "down"}}
    \cup {Cmd("tracking", a, "none") : a \in {"on", "off"}}

\* a queued command with the position at which it was pushed
Tagged(c, n) == [id |-> n, type |-> c.type, action |-> c.action, query |-> c.query]
NoCommand == [id |-> 0, type |-> "none", action |-> "none", query |-> "none"]

\* get_command's timeout argument
NoTimeout == 0
RouterTimeout == 1

\* Queue.put
put_command(q, c) == Append(q, c)

\* Queue.get on a non-empty queue: the item and what is left
QueueGet_Lifo(q) == [item |-> q[Len(q)], rest |-> SubSeq(q, 1, Len(q) - 1)]

QueueGet_Peek(q) == [item |-> Head(q), rest |-> q]

QueueGet(q) == [item |-> Head(q), rest |-> Tail(q)]

\* Queue.get(timeout=t) returns or raises Empty (never, when t is None and
\* nothing arrives)
CanReturn(q, t) == q # <<>> \/ t # NoTimeout

\* get_command: the item, or None when Queue.get raised
get_command(q, t) ==
    IF q # <<>> THEN QueueGet(q) ELSE [item |-> NoCommand, rest |-> q]

InitCmd ==
    /\ _command_queue = <<>>
    /\ _running = TRUE
    /\ _tracking_enabled = TRUE
    /\ voicePc = "setup"
    /\ voice_running = TRUE
    /\ recognizer = 0
    /\ routerPc = "check"
    /\ command = NoCommand
    /\ music_cmd_queue = <<>>
    /\ music_running = TRUE
    /\ greetings = 0
    /\ shutPc = "idle"
    /\ pushed = <<>>
    /\ dispatched = <<>>

InitHist ==
    /\ corrupt = {}
    /\ heardWith = 0

\* no greeting is being spoken ; tracking starts enabled
InitSpeech == speaking = 0
InitGate == gate = "on"

InitPop ==
    /\ popPc = "idle"
    /\ popTimeout = NoTimeout
    /\ popResult = NoCommand

\* ---- VoiceCommandThread.run

\* KaldiRecognizer(self.model, SAMPLE_RATE): a recognizer never used before
FreshRecognizer_Keep(r) == r

FreshRecognizer(r) == r + 1

\* sounddevice present, model loaded, a device found: enter the loop
VoiceSetupOk ==
    /\ voicePc = "setup"
    /\ voicePc' = "top"
    /\ recognizer' = FreshRecognizer(recognizer)
    /\ UNCHANGED <<_command_queue, _running, _tracking_enabled, voice_running,
                   routerPc, command, music_cmd_queue, music_running, greetings,
                   shutPc, pushed, dispatched>>
    /\ UNCHANGED <<motorVars, frameVars, popVars>>
    /\ UNCHANGED moreVars

\* any of the three setup steps fails: run returns
VoiceSetupFail ==
    /\ voicePc = "setup"
    /\ voicePc' = "disabled"
    /\ UNCHANGED <<_command_queue, _running, _tracking_enabled, voice_running,
                   recognizer, routerPc, command, music_cmd_queue, music_running,
                   greetings, shutPc, pushed, dispatched>>
    /\ UNCHANGED <<motorVars, frameVars, popVars>>
    /\ UNCHANGED moreVars

\* while self._running and shared.running: open the stream (or leave)
VoiceTop ==
    /\ voicePc = "top"
    /\ voicePc' = IF voice_running /\ _running THEN "streaming" ELSE "stopped"
    /\ UNCHANGED <<_command_queue, _running, _tracking_enabled, voice_running,
                   recognizer, routerPc, command, music_cmd_queue, music_running,
                   greetings, shutPc, pushed, dispatched>>
    /\ UNCHANGED <<motorVars, frameVars, popVars>>
    /\ UNCHANGED moreVars

\* the inner loop sees a cleared flag: the stream is closed
VoiceStreamLeave ==
    /\ voicePc = "streaming"
    /\ ~(voice_running /\ _running)
    /\ voicePc' = "top"
    /\ UNCHANGED <<_command_queue, _running, _tracking_enabled, voice_running,
                   recognizer, routerPc, command, music_cmd_queue, music_running,
                   greetings, shutPc, pushed, dispatched>>
    /\ UNCHANGED <<motorVars, frameVars, popVars>>
    /\ UNCHANGED moreVars

\* the stream raises (opening it, or while it is open)
VoiceStreamError ==
    /\ voicePc = "streaming"
    /\ recognizer <= MaxRestarts
    /\ voicePc' = "backoff"
    /\ corrupt' = corrupt \cup {recognizer}
    /\ UNCHANGED <<_command_queue, _running, _tracking_enabled, voice_running,
                   recognizer, routerPc, command, music_cmd_queue, music_running,
                   greetings, shutPc, pushed, dispatched>>
    /\ UNCHANGED <<motorVars, frameVars, popVars>>
    /\ UNCHANGED <<heardWith, restVars>>

\* except: sleep(3), a fresh KaldiRecognizer, back to the loop test
VoiceBackoff ==
    /\ voicePc = "backoff"
    /\ recognizer' = FreshRecognizer(recognizer)
    /\ voicePc' = "top"
    /\ UNCHANGED <<_command_queue, _running, _tracking_enabled, voice_running,
                   routerPc, command, music_cmd_queue, music_running, greetings,
                   shutPc, pushed, dispatched>>
    /\ UNCHANGED <<motorVars, frameVars, popVars>>
    /\ UNCHANGED moreVars

\* _audio_callback with an utterance that parses to c: shared.put_command(c)
AudioCallback(c) ==
    /\ voicePc = "streaming"
    /\ Len(pushed) < MaxPushed
    /\ LET t == Tagged(c, Len(pushed) + 1)
       IN  /\ _command_queue' = put_command(_command_queue, t)
           /\ pushed' = Append(pushed, t)
    /\ heardWith' = recognizer
    /\ UNCHANGED <<_running, _tracking_enabled, voicePc, voice_running, recognizer,
                   routerPc, command, music_cmd_queue, music_running, greetings,
                   shutPc, dispatched>>
    /\ UNCHANGED <<motorVars, frameVars, popVars>>
    /\ UNCHANGED <<corrupt, restVars>>

VoiceHears == \E c \in ParsedCommands : AudioCallback(c)

\* ---- process_commands

\* while shared.running:
RouterCheck ==
    /\ routerPc = "check"
    /\ routerPc' = IF _running THEN "get" ELSE "done"
    /\ UNCHANGED <<_command_queue, _running, _tracking_enabled, voicePc,
                   voice_running, recognizer, command, music_cmd_queue,
                   music_running, greetings, shutPc, pushed, dispatched>>
    /\ UNCHANGED <<motorVars, frameVars, popVars>>
    /\ UNCHANGED moreVars

\* command = shared.get_command(timeout=0.1) ; if command:
RouterGet ==
    /\ routerPc = "get"
    /\ CanReturn(_command_queue, RouterTimeout)
    /\ LET res == get_command(_command_queue, RouterTimeout)
       IN  /\ command' = res.item
           /\ _command_queue' = res.rest
           /\ routerPc' = IF res.item # NoCommand THEN "dispatch" ELSE "check"
    /\ UNCHANGED <<_running, _tracking_enabled, voicePc, voice_running, recognizer,
                   music_cmd_queue, music_running, greetings, shutPc, pushed,
                   dispatched>>
    /\ UNCHANGED <<motorVars, frameVars, popVars>>
    /\ UNCHANGED moreVars

\* the message process_commands forwards for a music or volume command
\* (id: the position at which the command was pushed, kept to tell the
\* messages apart)
Forwarded_AnyVolume(c) ==
    IF c.type = "music" THEN <<[action |-> c.action, query |-> c.query, id |-> c.id]>>
    ELSE IF c.type = "volume"
         THEN <<[action |-> IF c.action = "up" THEN "volume_up"
                            ELSE IF c.action = "down" THEN "volume_down"
                            ELSE "volume", query |-> "none", id |-> c.id]>>
    ELSE <<>>

Forwarded(c) ==
    IF c.type = "music" THEN <<[action |-> c.action, query |-> c.query, id |-> c.id]>>
    ELSE IF c.type = "volume" /\ c.action = "up"
         THEN <<[action |-> "volume_up", query |-> "none", id |-> c.id]>>
    ELSE IF c.type = "volume" /\ c.action = "down"
         THEN <<[action |-> "volume_down", query |-> "none", id |-> c.id]>>
    ELSE <<>>

\* Queue.put on the playback command channel
ChannelPut_Front(q, ms) == ms \o q

ChannelPut(q, ms) == q \o ms

TrackingAfter_OnIgnored(c, cur) ==
    IF c.type = "tracking" /\ c.action = "off" THEN FALSE
    ELSE cur

TrackingAfter(c, cur) ==
    IF c.type = "tracking" /\ c.action = "off" THEN FALSE
    ELSE IF c.type = "tracking" /\ c.action = "on" THEN TRUE
    ELSE cur

\* what the tracking flag's history becomes when the flag is written
GateAfter(g, old, new) ==
    IF new THEN "on" ELSE IF old THEN "off" ELSE g

\* Thread(target=say_greeting, daemon=True).start(): the speech runs on a
\* thread of its own
GreetingOnOwnThread_Inline == FALSE

GreetingOnOwnThread == TRUE

\* the if / elif chain on cmd_type
RouterDispatch ==
    /\ routerPc = "dispatch"
    /\ greetings' = IF command.type = "greeting" THEN greetings + 1 ELSE greetings
    /\ speaking' = IF command.type = "greeting" THEN speaking + 1 ELSE speaking
    /\ _tracking_enabled' = TrackingAfter(command, _tracking_enabled)
    /\ gate' = IF command.type = "tracking" /\ command.action \in {"on", "off"}
               THEN GateAfter(gate, _tracking_enabled,
                              TrackingAfter(command, _tracking_enabled))
               ELSE gate
    /\ music_cmd_queue' = ChannelPut(music_cmd_queue, Forwarded(command))
    /\ dispatched' = Append(dispatched, command)
    /\ routerPc' = IF command.type = "greeting" /\ ~GreetingOnOwnThread
                   THEN "speech" ELSE "check"
    /\ UNCHANGED <<_command_queue, _running, voicePc, voice_running, recognizer,
                   command, music_running, shutPc, pushed>>
    /\ UNCHANGED <<motorVars, frameVars, popVars>>
    /\ UNCHANGED <<histVars, parseVars, visVars, srvVars, musVars, playVars, matchVars>>

\* say_greeting returns: espeak has finished the message
SpeechEnds ==
    /\ speaking > 0
    /\ speaking' = speaking - 1
    /\ routerPc' = IF routerPc = "speech" THEN "check" ELSE routerPc
    /\ UNCHANGED <<_command_queue, _running, _tracking_enabled, voicePc,
                   voice_running, recognizer, command, music_cmd_queue,
                   music_running, greetings, shutPc, pushed, dispatched>>
    /\ UNCHANGED <<motorVars, frameVars, popVars>>
    /\ UNCHANGED <<histVars, parseVars, visVars, srvVars, musVars, playVars, gate,
                   matchVars>>

\* no message: musCommand before the first get ; no operation: lastOp when
\* the player was last touched by something other than _process_command
NoMessage == [action |-> "none", query |-> "none", id |-> 0]
NoOp == [msg |-> NoMessage, before |-> [made |-> FALSE]]

\* ---- shutdown(), on a signal or at the end of main

ShutdownBegin ==
    /\ shutPc = "idle"
    /\ _running' = FALSE
    /\ shutPc' = "voice"
    /\ UNCHANGED <<_command_queue, _tracking_enabled, voicePc, voice_running,
                   recognizer, routerPc, command, music_cmd_queue, music_running,
                   greetings, pushed, dispatched>>
    /\ UNCHANGED <<motorVars, frameVars, popVars>>
    /\ UNCHANGED moreVars

ShutdownVoice ==
    /\ shutPc = "voice"
    /\ voice_running' = FALSE
    /\ shutPc' = "music"
    /\ UNCHANGED <<_command_queue, _running, _tracking_enabled, voicePc,
                   recognizer, routerPc, command, music_cmd_queue, music_running,
                   greetings, pushed, dispatched>>
    /\ UNCHANGED <<motorVars, frameVars, popVars>>
    /\ UNCHANGED moreVars

\* music_player.shutdown(), run by the thread that runs shutdown():
\* self._running = False ; if self.player: self.player.stop()
ShutdownMusic ==
    /\ shutPc = "music"
    /\ music_running' = FALSE
    /\ IF player.made
       THEN /\ player' = [player EXCEPT !.state = "Stopped", !.at = "start"]
            /\ playerWriters' = playerWriters \cup {"main"}
            /\ lastOp' = NoOp
       ELSE UNCHANGED <<player, playerWriters, lastOp>>
    /\ shutPc' = "motors"
    /\ UNCHANGED <<current_song, current_volume, music_files, processed>>
    /\ UNCHANGED <<_command_queue, _running, _tracking_enabled, voicePc,
                   voice_running, recognizer, routerPc, command, music_cmd_queue,
                   greetings, pushed, dispatched>>
    /\ UNCHANGED <<motorVars, frameVars, popVars>>
    /\ UNCHANGED <<histVars, parseVars, visVars, srvVars, musVars, speaking, gate,
                   matchVars>>

ShutdownMotors ==
    /\ shutPc = "motors"
    /\ actuator' = stop_motors(actuator)
    /\ lastCall' = [op |-> "stop", dx |-> 0, dy |-> 0]
    /\ before' = actuator
    /\ stopStreak' = IF stopStreak < 2 THEN stopStreak + 1 ELSE 2
    /\ shutPc' = "done"
    /\ UNCHANGED <<MOTOR_AVAILABLE, motor1, motor2>>
    /\ UNCHANGED <<_command_queue, _running, _tracking_enabled, voicePc,
                   voice_running, recognizer, routerPc, command, music_cmd_queue,
                   music_running, greetings, pushed, dispatched>>
    /\ UNCHANGED <<frameVars, popVars>>
    /\ UNCHANGED moreVars

Next ==
    \/ VoiceSetupOk
    \/ VoiceSetupFail
    \/ VoiceTop
    \/ VoiceStreamLeave
    \/ VoiceStreamError
    \/ VoiceBackoff
    \/ VoiceHears
    \/ RouterCheck
    \/ RouterGet
    \/ RouterDispatch
    \/ ShutdownBegin
    \/ ShutdownVoice
    \/ ShutdownMusic
    \/ ShutdownMotors

\* ---- any caller of get_command, with or without a timeout, and a producer

PopCall(t) ==
    /\ popPc = "idle"
    /\ popTimeout' = t
    /\ popPc' = "waiting"
    /\ UNCHANGED popResult
    /\ UNCHANGED <<motorVars, frameVars, cmdVars>>
    /\ UNCHANGED moreVars

\* Queue.get hands over an item or raises Empty, and get_command returns
PopReturn ==
    /\ popPc = "waiting"
    /\ CanReturn(_command_queue, popTimeout)
    /\ LET res == get_command(_command_queue, popTimeout)
       IN  /\ popResult' = res.item
           /\ _command_queue' = res.rest
    /\ popPc' = "returned"
    /\ UNCHANGED popTimeout
    /\ UNCHANGED <<_running, _tracking_enabled, voicePc, voice_running, recognizer,
                   routerPc, command, music_cmd_queue, music_running, greetings,
                   shutPc, pushed, dispatched>>
    /\ UNCHANGED <<motorVars, frameVars>>
    /\ UNCHANGED moreVars

PopAgain ==
    /\ popPc = "returned"
    /\ popPc' = "idle"
    /\ UNCHANGED <<popTimeout, popResult>>
    /\ UNCHANGED <<motorVars, frameVars, cmdVars>>
    /\ UNCHANGED moreVars

\* shared.put_command(c) from some producer
ProducerPut(c) ==
    /\ Len(pushed) < MaxPushed
    /\ LET t == Tagged(c, Len(pushed) + 1)
       IN  /\ _command_queue' = put_command(_command_queue, t)
           /\ pushed' = Append(pushed, t)
    /\ UNCHANGED <<_running, _tracking_enabled, voicePc, voice_running, recognizer,
                   routerPc, command, music_cmd_queue, music_running, greetings,
                   shutPc, dispatched>>
    /\ UNCHANGED <<motorVars, frameVars, popVars>>
    /\ UNCHANGED moreVars

PopCalls == \E t \in {NoTimeout, RouterTimeout} : PopCall(t)
ProducerPuts == \E c \in ParsedCommands : ProducerPut(c)

NextPop ==
    \/ PopCalls
    \/ PopReturn
    \/ PopAgain
    \/ ProducerPuts

-----------------------------------------------------------------------------
(* voice_commands.parse_command: recognised text -> command                 *)

\* a text is a sequence of one-character strings
UpperCase == <<"A", "B", "C", "D", "E", "F", "G", "H", "I", "J", "K", "L", "M",
               "N", "O", "P", "Q", "R", "S", "T", "U", "V", "W", "X", "Y", "Z">>
LowerCase == <<"a", "b", "c", "d", "e", "f", "g", "h", "i", "j", "k", "l", "m",
               "n", "o", "p", "q", "r", "s", "t", "u", "v", "w", "x", "y", "z">>
Whitespace == {" ", "\t"}

Translate(from, to, c) ==
    IF \E i \in 1..Len(from) : from[i] = c
    THEN to[CHOOSE i \in 1..Len(from) : from[i] = c]
    ELSE c

\* str.lower, str.upper
Lower(text) == [i \in 1..Len(text) |-> Translate(UpperCase, LowerCase, text[i])]
Upper(text) == [i \in 1..Len(text) |-> Translate(LowerCase, UpperCase, text[i])]

\* str.strip: without the leading and the trailing whitespace
Strip(text) ==
    LET keep == {i \in 1..Len(text) : text[i] \notin Whitespace}
    IN  IF keep = {} THEN <<>>
        ELSE SubSeq(text,
                    CHOOSE i \in keep : \A j \in keep : i <= j,
                    CHOOSE i \in keep : \A j \in keep : j <= i)

\* str.startswith, and text[n:]
StartsWith(text, prefix) ==
    Len(text) >= Len(prefix) /\ SubSeq(text, 1, Len(prefix)) = prefix
Drop(text, n) == SubSeq(text, n + 1, Len(text))

\* re.match of an alternation of literals: one of them starts the text
ReMatch(alternatives, text) == \E p \in alternatives : StartsWith(text, p)

GreetingPhrases ==
    { <<"h", "e", "l", "l", "o">>,
      <<"h", "i">>,
      <<"h", "e", "y">>,
      <<"h", "e", "l", "l", "o", " ", "d", "e", "b", "o">> }

PlayWord == <<"p", "l", "a", "y">>

PausePhrases ==
    { <<"p", "a", "u", "s", "e">>,
      <<"p", "a", "u", "s", "e", " ", "m", "u", "s", "i", "c">>,
      <<"p", "a", "u", "s", "e", " ", "i", "t">> }

StopPhrases ==
    { <<"s", "t", "o", "p">>,
      <<"s", "t", "o", "p", " ", "m", "u", "s", "i", "c">>,
      <<"s", "t", "o", "p", " ", "i", "t">>,
      <<"s", "t", "o", "p", " ", "p", "l", "a", "y", "i", "n", "g">> }

VolumeUpPatterns ==
    { <<"v", "o", "l", "u", "m", "e", " ", "u", "p">>,
      <<"l", "o", "u", "d", "e", "r">>,
      <<"t", "u", "r", "n", " ", "i", "t", " ", "u", "p">>,
      <<"i", "n", "c", "r", "e", "a", "s", "e", " ", "v", "o", "l", "u", "m", "e">> }

VolumeDownPatterns ==
    { <<"v", "o", "l", "u", "m", "e", " ", "d", "o", "w", "n">>,
      <<"q", "u", "i", "e", "t", "e", "r">>,
      <<"t", "u", "r", "n", " ", "i", "t", " ", "d", "o", "w", "n">>,
      <<"d", "e", "c", "r", "e", "a", "s", "e", " ", "v", "o", "l", "u", "m", "e">> }

TrackingOnPatterns ==
    { <<"t", "r", "a", "c", "k", "i", "n", "g", " ", "o", "n">>,
      <<"e", "n", "a", "b", "l", "e", " ", "t", "r", "a", "c", "k", "i", "n", "g">>,
      <<"s", "t", "a", "r", "t", " ", "t", "r", "a", "c", "k", "i", "n", "g">>,
      <<"t", "r", "a", "c", "k", " ", "m", "e">> }

TrackingOffPatterns ==
    { <<"t", "r", "a", "c", "k", "i", "n", "g", " ", "o", "f", "f">>,
      <<"d", "i", "s", "a", "b", "l", "e", " ", "t", "r", "a", "c", "k", "i", "n", "g">>,
      <<"s", "t", "o", "p", " ", "t", "r", "a", "c", "k", "i", "n", "g">>,
      <<"d", "o", "n", "'", "t", " ", "t", "r", "a", "c", "k">> }

\* the value None for a query, and parse_command returning None
NoQuery == <<"None">>
NoParse == [type |-> "none", action |-> "none", query |-> NoQuery]

\* a command dict; one without a 'query' key reads as query None
ParsedCmd(t, a, q) == [type |-> t, action |-> a, query |-> q]

\* text in ['hello', 'hi', 'hey', 'hello debo']
IsGreeting_Prefix(text) == ReMatch(GreetingPhrases, text)

IsGreeting(text) == text \in GreetingPhrases

\* query = text[4:].strip() ; query if query else None
PlayQuery_Untrimmed(text) ==
    LET query == Drop(text, Len(PlayWord))
    IN  IF query # <<>> THEN query ELSE NoQuery

PlayQuery(text) ==
    LET query == Strip(Drop(text, Len(PlayWord)))
    IN  IF query # <<>> THEN query ELSE NoQuery

\* text in ['stop', 'stop music', 'stop it', 'stop playing']
IsStop_Prefix(text) == ReMatch(StopPhrases, text)

IsStop(text) == text \in StopPhrases

parse_command(raw) ==
    LET text == Strip(Lower(raw))
    IN  IF text = <<>> THEN NoParse
        ELSE IF IsGreeting(text) THEN ParsedCmd("greeting", "hello", NoQuery)
        ELSE IF StartsWith(text, PlayWord)
             THEN ParsedCmd("music", "play", PlayQuery(text))
        ELSE IF text \in PausePhrases THEN ParsedCmd("music", "pause", NoQuery)
        ELSE IF IsStop(text) THEN ParsedCmd("music", "stop", NoQuery)
        ELSE IF ReMatch(VolumeUpPatterns, text) THEN ParsedCmd("volume", "up", NoQuery)
        ELSE IF ReMatch(VolumeDownPatterns, text) THEN ParsedCmd("volume", "down", NoQuery)
        ELSE IF ReMatch(TrackingOnPatterns, text) THEN ParsedCmd("tracking", "on", NoQuery)
        ELSE IF ReMatch(TrackingOffPatterns, text) THEN ParsedCmd("tracking", "off", NoQuery)
        ELSE NoParse

\* ---- the texts the recogniser is taken to produce

OtherPhrases ==
    { <<>>,
      <<"h", "e", "l", "l", "o", " ", "w", "o", "r", "l", "d">>,
      <<"h", "i", " ", "t", "h", "e", "r", "e">>,
      <<"h", "e", "l", "p">>,
      <<"p", "l", "e", "a", "s", "e", " ", "p", "l", "a", "y">>,
      <<"p", "l", "a">>,
      <<"d", "i", "s", "p", "l", "a", "y">>,
      <<"s", "t", "o", "p", "p", "i", "n", "g">>,
      <<"s", "t", "o", "p", " ", "t", "h", "e", " ", "m", "u", "s", "i", "c">>,
      <<"v", "o", "l", "u", "m", "e">>,
      <<"t", "r", "a", "c", "k", "i", "n", "g">>,
      <<"t", "u", "r", "n", " ", "i", "t">>,
      <<"t", "r", "a", "c", "k">>,
      <<"w", "h", "a", "t", " ", "t", "i", "m", "e", " ", "i", "s", " ", "i", "t">> }

Continuations ==
    { <<>>,
      <<" ", "p", "l", "e", "a", "s", "e">>,
      <<" ", "s", "o", "m", "e", " ", "j", "a", "z", "z">>,
      <<"i", "n", "g">>,
      <<" ", " ", " ">>,
      <<" ", "h", "e", "l", "l", "o">>,
      <<" ", "s", "t", "o", "p">> }

Examples ==
    { <<"P", "L", "A", "Y", " ", "s", "o", "m", "e", " ", "j", "a", "z", "z">>,
      <<"H", "e", "l", "l", "o", " ", "W", "o", "r", "l", "d">>,
      <<" ", "\t", "P", "l", "a", "y", "\t", " ">>,
      <<"p", "l", "a", "y", " ", " ", " ", "S", "o", "m", "e", " ", " ", "J", "a", "z", "z", " ">>,
      <<"H", "e", "l", "l", "o", " ", "D", "e", "b", "o">> }

CommandPhrases ==
    GreetingPhrases \cup {PlayWord} \cup PausePhrases \cup StopPhrases
    \cup VolumeUpPatterns \cup VolumeDownPatterns
    \cup TrackingOnPatterns \cup TrackingOffPatterns

Casings == {"asis", "upper", "capital"}
Cased(k, text) ==
    IF k = "upper" THEN Upper(text)
    ELSE IF k = "capital" /\ text # <<>> THEN Upper(SubSeq(text, 1, 1)) \o Drop(text, 1)
    ELSE text

Paddings == {<<<<>>, <<>>>>, <<<<" ">>, <<>>>>, <<<<>>, <<"\t", " ">>>>, <<<<" ">>, <<" ">>>>}
Padded(p, text) == p[1] \o text \o p[2]

Texts ==
    Examples \cup
    {Padded(p, Cased(k, c \o s)) :
        c \in CommandPhrases \cup OtherPhrases, s \in Continuations,
        k \in Casings, p \in Paddings}

InitParse ==
    /\ parsed = FALSE
    /\ parseText = <<>>
    /\ parseOut = NoParse

\* command = parse_command(text)
ParseText(text) ==
    /\ ~parsed
    /\ parsed' = TRUE
    /\ parseText' = text
    /\ parseOut' = parse_command(text)
    /\ UNCHANGED <<motorVars, frameVars, cmdVars, popVars, histVars, visVars, srvVars,
                   musVars,
                   lateVars>>

ParseAny == \E text \in Texts : ParseText(text)

NextParse == ParseAny

-----------------------------------------------------------------------------
(* VisionLoop: vision_tracker.run_vision_tracker, in the main thread         *)

\* faces the detector may report in one frame
MaxFaces == 2

\* a face box is <<x, y, w, h>>; the samples: a small face far up and left,
\* one about the centre, a large one right of the centre, and one with the
\* area of the first far down and right
Boxes == {<<100, 100, 60, 60>>, <<290, 210, 60, 60>>,
          <<300, 100, 200, 200>>, <<500, 400, 60, 60>>}

RECURSIVE SeqsUpTo(_, _)
SeqsUpTo(S, n) ==
    IF n = 0 THEN {<<>>}
    ELSE LET shorter == SeqsUpTo(S, n - 1)
         IN  shorter \cup {Append(s, x) : s \in shorter, x \in S}

FaceLists == SeqsUpTo(Boxes, MaxFaces)

\* key=lambda f: f[2] * f[3]
Area(f) == f[3] * f[4]

\* max(faces, key=...): the first of the faces of the largest area
LargestFace_Last(fs) ==
    fs[CHOOSE i \in 1..Len(fs) :
           \A j \in 1..Len(fs) : /\ Area(fs[j]) <= Area(fs[i])
                                 /\ (j > i => Area(fs[j]) < Area(fs[i]))]

LargestFace(fs) ==
    fs[CHOOSE i \in 1..Len(fs) :
           \A j \in 1..Len(fs) : /\ Area(fs[j]) <= Area(fs[i])
                                 /\ (j < i => Area(fs[j]) < Area(fs[i]))]

\* the offset of the face centre from the frame centre
FaceOffset(f) ==
    [dx |-> (f[1] + f[3] \div 2) - FRAME_WIDTH \div 2,
     dy |-> (f[2] + f[4] \div 2) - FRAME_HEIGHT \div 2]

NoBox == <<>>

\* the motor call of one iteration, from the detected faces and the tracking
\* flag as read (the flag is read only when there is a face)
vision_decide_HoldOnLoss(fs, tracking) ==
    IF Len(fs) > 0
    THEN IF tracking
         THEN LET o == FaceOffset(LargestFace(fs))
              IN  [op |-> "control", dx |-> o.dx, dy |-> o.dy]
         ELSE [op |-> "stop", dx |-> 0, dy |-> 0]
    ELSE NoCall

vision_decide_IgnoreFlag(fs, tracking) ==
    IF Len(fs) > 0
    THEN LET o == FaceOffset(LargestFace(fs))
         IN  [op |-> "control", dx |-> o.dx, dy |-> o.dy]
    ELSE [op |-> "stop", dx |-> 0, dy |-> 0]

vision_decide(fs, tracking) ==
    IF Len(fs) > 0
    THEN IF tracking
         THEN LET o == FaceOffset(LargestFace(fs))
              IN  [op |-> "control", dx |-> o.dx, dy |-> o.dy]
         ELSE [op |-> "stop", dx |-> 0, dy |-> 0]
    ELSE [op |-> "stop", dx |-> 0, dy |-> 0]

\* the call carried out on the motors
MotorCall(a, call) ==
    IF call.op = "control" THEN control_motors(a, call.dx, call.dy)
    ELSE IF call.op = "stop" THEN stop_motors(a)
    ELSE a

\* finally: cap.release() ; stop_motors()
finally_motors_Skip(a) == a

finally_motors(a) == stop_motors(a)

NoIteration ==
    [captured |-> FALSE, image |-> 0, nfaces |-> 0, box |-> NoBox,
     tracking |-> "unread", call |-> NoCall, late |-> FALSE,
     prior |-> [m1 |-> 0, m2 |-> 0], published |-> FALSE,
     m1 |-> 0, m2 |-> 0]

InitVision ==
    /\ visPc = "check"
    /\ faces = <<>>
    /\ iter = NoIteration
    /\ mainPc = "vision"

\* while shared.running:
VisionCheck ==
    /\ visPc = "check"
    /\ visPc' = IF _running THEN "read" ELSE "finally"
    /\ UNCHANGED <<faces, iter, mainPc>>
    /\ UNCHANGED <<motorVars, frameVars, cmdVars, popVars, histVars, parseVars, srvVars, musVars,
                   lateVars>>

\* cap.read() fails: sleep(0.1) ; continue
VisionReadFail_Stops ==
    /\ visPc = "read"
    /\ visPc' = "check"
    /\ iter' = NoIteration
    /\ actuator' = stop_motors(actuator)
    /\ UNCHANGED <<faces, mainPc>>
    /\ UNCHANGED <<MOTOR_AVAILABLE, motor1, motor2, lastCall, before, stopStreak>>
    /\ UNCHANGED <<frameVars, cmdVars, popVars, histVars, parseVars, srvVars, musVars,
                   lateVars>>

VisionReadFail ==
    /\ visPc = "read"
    /\ visPc' = "check"
    /\ iter' = NoIteration
    /\ UNCHANGED <<faces, mainPc>>
    /\ UNCHANGED <<motorVars, frameVars, cmdVars, popVars, histVars, parseVars, srvVars, musVars,
                   lateVars>>

\* cap.read() returns image k, in which the detector finds the faces fs; the
\* largest is outlined on the frame
VisionRead(k, fs) ==
    /\ visPc = "read"
    /\ gate' = IF gate = "off" THEN "begun" ELSE gate
    /\ LET h0 == Collect(heap, Refs(_frame, None, rtmp, held))
           n == NewObj(h0)
       IN  /\ heap' = [h0 EXCEPT ![n] = Whole(k)]
           /\ vframe' = n
    /\ faces' = fs
    /\ iter' = [NoIteration EXCEPT
                   !.captured = TRUE, !.image = k, !.nfaces = Len(fs),
                   !.box = IF Len(fs) > 0 THEN LargestFace(fs) ELSE NoBox,
                   !.prior = [m1 |-> actuator.m1, m2 |-> actuator.m2]]
    /\ visPc' = "act"
    /\ UNCHANGED mainPc
    /\ UNCHANGED <<_frame, _frame_lock, vpc, rpc, rtmp, held, stored, completed, got>>
    /\ UNCHANGED <<motorVars, cmdVars, popVars, histVars, parseVars, srvVars, musVars,
                   playVars, speaking, matchVars>>

\* if len(faces) > 0: ... control_motors / stop_motors ; else: stop_motors
VisionAct ==
    /\ visPc = "act"
    /\ LET call == vision_decide(faces, _tracking_enabled)
       IN  /\ actuator' = MotorCall(actuator, call)
           /\ lastCall' = IF call = NoCall THEN lastCall ELSE call
           /\ before' = IF call = NoCall THEN before ELSE actuator
           /\ stopStreak' = IF call.op = "control" THEN 0
                            ELSE IF call.op = "stop" /\ stopStreak < 2 THEN stopStreak + 1
                            ELSE stopStreak
           /\ iter' = [iter EXCEPT
                          !.tracking = IF Len(faces) = 0 THEN "unread"
                                       ELSE IF _tracking_enabled THEN "on" ELSE "off",
                          !.call = call,
                          !.late = (shutPc = "done")]
    \* faces is not read again before the next detectMultiScale rebinds it
    /\ faces' = <<>>
    /\ visPc' = "publish"
    /\ UNCHANGED mainPc
    /\ UNCHANGED <<MOTOR_AVAILABLE, motor1, motor2>>
    /\ UNCHANGED <<frameVars, cmdVars, popVars, histVars, parseVars, srvVars, musVars,
                   lateVars>>

\* shared.set_frame(frame) ; time.sleep(0.01)
VisionPublish ==
    /\ visPc = "publish"
    /\ gate' = IF gate = "begun" THEN "full" ELSE gate
    /\ LockFree
    /\ LET res == set_frame(heap, _frame, vframe)
       IN  /\ _frame' = res.ref
           /\ heap' = Collect(res.heap, Refs(res.ref, vframe, rtmp, held))
    /\ stored' = heap[vframe]
    /\ completed' = heap[vframe]
    /\ iter' = [iter EXCEPT !.published = TRUE,
                            !.m1 = actuator.m1, !.m2 = actuator.m2]
    /\ visPc' = "check"
    /\ UNCHANGED <<faces, mainPc>>
    /\ UNCHANGED <<_frame_lock, vpc, vframe, rpc, rtmp, held, got>>
    /\ UNCHANGED <<motorVars, cmdVars, popVars, histVars, parseVars, srvVars, musVars,
                   playVars, speaking, matchVars>>

\* finally: cap.release() ; stop_motors() ; run_vision_tracker returns
VisionFinally ==
    /\ visPc = "finally"
    /\ actuator' = finally_motors(actuator)
    /\ lastCall' = [op |-> "stop", dx |-> 0, dy |-> 0]
    /\ before' = actuator
    /\ stopStreak' = IF stopStreak < 2 THEN stopStreak + 1 ELSE 2
    /\ visPc' = "done"
    /\ UNCHANGED <<faces, iter, mainPc>>
    /\ UNCHANGED <<MOTOR_AVAILABLE, motor1, motor2>>
    /\ UNCHANGED <<frameVars, cmdVars, popVars, histVars, parseVars, srvVars, musVars,
                   lateVars>>

\* main: run_vision_tracker has returned ; finally: shutdown(), once more
\* when a signal had already run it
MainFinally ==
    /\ mainPc = "vision"
    /\ visPc = "done"
    /\ shutPc \in {"idle", "done"}
    /\ mainPc' = "finally"
    /\ _running' = FALSE
    /\ shutPc' = "voice"
    /\ UNCHANGED <<visPc, faces, iter>>
    /\ UNCHANGED <<_command_queue, _tracking_enabled, voicePc, voice_running,
                   recognizer, routerPc, command, music_cmd_queue, music_running,
                   greetings, pushed, dispatched>>
    /\ UNCHANGED <<motorVars, frameVars, popVars, histVars, parseVars, srvVars, musVars,
                   lateVars>>

\* process_commands dispatches a tracking command while VisionLoop runs
DispatchTracking(a) ==
    /\ routerPc # "done"
    /\ _tracking_enabled' = TrackingAfter(Cmd("tracking", a, "none"), _tracking_enabled)
    /\ gate' = GateAfter(gate, _tracking_enabled,
                         TrackingAfter(Cmd("tracking", a, "none"), _tracking_enabled))
    /\ UNCHANGED <<_command_queue, _running, voicePc, voice_running, recognizer,
                   routerPc, command, music_cmd_queue, music_running, greetings,
                   shutPc, pushed, dispatched>>
    /\ UNCHANGED <<visPc, faces, iter, mainPc>>
    /\ UNCHANGED <<motorVars, frameVars, popVars, histVars, parseVars, srvVars, musVars,
                   playVars, speaking, matchVars>>

VisionReads == \E k \in Images, fs \in FaceLists : VisionRead(k, fs)
TrackingCommands == \E a \in {"on", "off"} : DispatchTracking(a)

NextVision ==
    \/ VisionCheck
    \/ VisionReadFail
    \/ VisionReads
    \/ VisionAct
    \/ VisionPublish
    \/ VisionFinally
    \/ MainFinally
    \/ TrackingCommands
    \/ ShutdownBegin
    \/ ShutdownVoice
    \/ ShutdownMusic
    \/ ShutdownMotors

-----------------------------------------------------------------------------
(* StreamServer: web_stream.run_web_server and StreamHandler                 *)

\* the viewers; each reads the frame cell as one of the Readers
Clients == Readers
NoClient == CHOOSE c \in 0..NumReaders : c \notin Clients

\* what a viewer may ask for: the page (answered at once, like an unknown
\* path) or the stream
Paths == {"/", "/stream"}

InitServer ==
    /\ srvPc = "check"
    /\ srvClient = NoClient
    /\ backlog = <<>>
    /\ conn = [c \in Clients |-> "none"]
    /\ path = [c \in Clients |-> "/"]

\* a viewer opens a connection and sends GET p; it waits in the listen queue
ClientConnect(c, p) ==
    /\ conn[c] \in {"none", "closed"}
    /\ conn' = [conn EXCEPT ![c] = "pending"]
    /\ path' = [path EXCEPT ![c] = p]
    /\ backlog' = Append(backlog, c)
    /\ UNCHANGED <<srvPc, srvClient>>
    /\ UNCHANGED <<motorVars, frameVars, cmdVars, popVars, histVars, parseVars, visVars, musVars,
                   lateVars>>

\* a viewer that is being streamed to goes away
ClientDisconnect(c) ==
    /\ conn[c] \in {"streaming", "receiving"}
    /\ conn' = [conn EXCEPT ![c] = "gone"]
    /\ UNCHANGED <<srvPc, srvClient, backlog, path>>
    /\ UNCHANGED <<motorVars, frameVars, cmdVars, popVars, histVars, parseVars, visVars, musVars,
                   lateVars>>

\* while shared.running: ... ; server.server_close()
ServerCheck ==
    /\ srvPc = "check"
    /\ srvPc' = IF _running THEN "accept" ELSE "closed"
    /\ UNCHANGED <<srvClient, backlog, conn, path>>
    /\ UNCHANGED <<motorVars, frameVars, cmdVars, popVars, histVars, parseVars, visVars, musVars,
                   lateVars>>

\* server.handle_request(): waits, without a timeout, for the next connection
\* and runs do_GET on it in this thread; "/" and unknown paths are answered
\* at once, "/stream" sends the headers and enters the frame loop
ServerAccept ==
    /\ srvPc = "accept"
    /\ backlog # <<>>
    /\ LET c == Head(backlog)
       IN  IF path[c] = "/stream"
           THEN /\ srvPc' = "loop"
                /\ srvClient' = c
                /\ conn' = [conn EXCEPT ![c] = "streaming"]
           ELSE /\ srvPc' = "check"
                /\ srvClient' = NoClient
                /\ conn' = [conn EXCEPT ![c] = "closed"]
    /\ backlog' = Tail(backlog)
    /\ UNCHANGED path
    /\ UNCHANGED <<motorVars, frameVars, cmdVars, popVars, histVars, parseVars, visVars, musVars,
                   lateVars>>

\* the handler returns: its locals go, the connection is closed, and
\* handle_request returns to the accept loop
HandlerReturns ==
    /\ srvPc' = "check"
    /\ srvClient' = NoClient
    /\ conn' = [conn EXCEPT ![srvClient] = "closed"]
    /\ path' = [path EXCEPT ![srvClient] = "/"]
    /\ rpc' = [rpc EXCEPT ![srvClient] = "idle"]
    /\ held' = [held EXCEPT ![srvClient] = None]
    /\ got' = [got EXCEPT ![srvClient] = NoReturn]
    /\ heap' = Collect(heap, Refs(_frame, vframe, rtmp, held'))
    /\ UNCHANGED <<_frame, _frame_lock, vpc, vframe, rtmp, stored, completed>>

\* _serve_stream: while shared.running: frame = shared.get_frame() is called;
\* with the flag cleared the loop ends
ServeLoop ==
    /\ srvPc = "loop"
    /\ IF _running
       THEN /\ srvPc' = "get"
            /\ rpc' = [rpc EXCEPT ![srvClient] = "idle"]
            /\ UNCHANGED <<srvClient, conn, path>>
            /\ UNCHANGED <<heap, _frame, _frame_lock, vpc, vframe, rtmp, held,
                           stored, completed, got>>
       ELSE HandlerReturns
    /\ UNCHANGED backlog
    /\ UNCHANGED <<motorVars, cmdVars, popVars, histVars, parseVars, visVars, musVars,
                   lateVars>>

\* the three steps of that get_frame call
ServeGetEnter == srvPc = "get" /\ rpc[srvClient] = "idle" /\ GetFrameEnter(srvClient)
ServeGetCopy == srvPc = "get" /\ GetFrameCopy(srvClient)
ServeGetExit == srvPc = "get" /\ GetFrameExit(srvClient)

\* if frame is None: sleep ; continue.  Otherwise encode and write the part:
\* the write raises BrokenPipeError when the viewer is gone, which ends the
\* loop; else sleep(0.033) and loop
ServeFrame ==
    /\ srvPc = "get"
    /\ rpc[srvClient] = "got"
    /\ IF held[srvClient] # None /\ conn[srvClient] = "gone"
       THEN HandlerReturns
       ELSE /\ srvPc' = "loop"
            /\ conn' = IF held[srvClient] # None
                       THEN [conn EXCEPT ![srvClient] = "receiving"]
                       ELSE conn
            /\ UNCHANGED <<srvClient, path>>
            /\ UNCHANGED frameVars
    /\ UNCHANGED backlog
    /\ UNCHANGED <<motorVars, cmdVars, popVars, histVars, parseVars, visVars, musVars,
                   lateVars>>

ClientConnects == \E c \in Clients, p \in Paths : ClientConnect(c, p)
ClientDisconnects == \E c \in Clients : ClientDisconnect(c)

\* VisionLoop publishing, viewers coming and going, the server thread, and
\* shutdown clearing the flag
NextStream ==
    \/ PublisherCapture
    \/ SetFrameEnter
    \/ SetFrameStore
    \/ SetFrameExit
    \/ ClientConnects
    \/ ClientDisconnects
    \/ ServerCheck
    \/ ServerAccept
    \/ ServeLoop
    \/ ServeGetEnter
    \/ ServeGetCopy
    \/ ServeGetExit
    \/ ServeFrame
    \/ ShutdownBegin

-----------------------------------------------------------------------------
(* SongIndex and song matching: music_player.find_best_match                 *)

\* the names (file names without extension) a music folder is taken to hold
SongNames ==
    { <<"J", "a", "z", "z">>,
      <<"j", "a", "x", "z">>,
      <<"b", "l", "u", "e", "j", "a", "z", "z">>,
      <<"B", "l", "u", "e", "s">>,
      <<"j", "a", "z", "z", "y">> }

MaxSongs == 2

\* index_music_folder: the songs found, in os.walk order
Libraries == SeqsUpTo(SongNames, MaxSongs)

\* the spelling of a query; "none" is None, as for a bare "play"
QueryText(q) ==
    CASE q = "none" -> <<>>
      [] q = "jazz" -> <<"j", "a", "z", "z">>
      [] q = "JAZZ" -> <<"J", "A", "Z", "Z">>
      [] q = "blues" -> <<"b", "l", "u", "e", "s">>
      [] q = "za" -> <<"z", "a">>
      [] q = "xq" -> <<"x", "q">>

SongQueries == {"none", "jazz", "JAZZ", "blues", "za", "xq"}

\* query_lower in name_lower
Contains(text, part) ==
    \E i \in 0..(Len(text) - Len(part)) : SubSeq(text, i + 1, i + Len(part)) = part

\* the blocks a[i..i+k-1] = b[j..j+k-1]
CommonBlocks(a, b) ==
    {t \in (1..Len(a)) \X (1..Len(b)) \X (1..Len(a)) :
        /\ t[1] + t[3] - 1 <= Len(a)
        /\ t[2] + t[3] - 1 <= Len(b)
        /\ a[t[1]] = b[t[2]]
        /\ SubSeq(a, t[1], t[1] + t[3] - 1) = SubSeq(b, t[2], t[2] + t[3] - 1)}

\* SequenceMatcher.find_longest_match: the longest block, of those the one
\* that starts earliest in a, of those the one that starts earliest in b
LongestMatch(blocks) ==
    CHOOSE t \in blocks :
        \A u \in blocks :
            \/ u[3] < t[3]
            \/ u[3] = t[3] /\ u[1] > t[1]
            \/ u[3] = t[3] /\ u[1] = t[1] /\ u[2] >= t[2]

\* SequenceMatcher.get_matching_blocks: the characters matched by the longest
\* block and, recursively, to its left and to its right
RECURSIVE MatchingChars(_, _)
MatchingChars(a, b) ==
    LET blocks == CommonBlocks(a, b)
    IN  IF blocks = {} THEN 0
        ELSE LET t == LongestMatch(blocks)
             IN  t[3]
                 + MatchingChars(SubSeq(a, 1, t[1] - 1), SubSeq(b, 1, t[2] - 1))
                 + MatchingChars(SubSeq(a, t[1] + t[3], Len(a)),
                                 SubSeq(b, t[2] + t[3], Len(b)))

\* a score is a fraction <<numerator, denominator>>
Greater(x, y) == x[1] * y[2] > y[1] * x[2]
NoScore == <<0, 1>>
\* the acceptance threshold 0.3
Threshold_Zero == <<0, 10>>

Threshold == <<3, 10>>

\* len(query_lower) / len(name_lower) + 0.5 for a substring match, else
\* SequenceMatcher(None, query_lower, name_lower).ratio() = 2 M / T
SongScore(query_lower, name_lower) ==
    IF Contains(name_lower, query_lower)
    THEN <<2 * Len(query_lower) + Len(name_lower), 2 * Len(name_lower)>>
    ELSE <<2 * MatchingChars(query_lower, name_lower), Len(query_lower) + Len(name_lower)>>

\* for song in music_files: ... if score > best_score: (best_score, best_match)
RECURSIVE BestFrom(_, _, _, _, _)
BestFrom(query_lower, files, i, best_match, best_score) ==
    IF i > Len(files) THEN [match |-> best_match, score |-> best_score]
    ELSE LET score == SongScore(query_lower, Lower(files[i]))
         IN  IF Greater(score, best_score)
             THEN BestFrom(query_lower, files, i + 1, i, score)
             ELSE BestFrom(query_lower, files, i + 1, best_match, best_score)

NoSong == 0

\* find_best_match: the position of the song returned, NoSong for None
find_best_match(query, files) ==
    IF files = <<>> THEN NoSong
    ELSE IF query = <<>> THEN 1
    ELSE LET best == BestFrom(Lower(query), files, 1, NoSong, NoScore)
         IN  IF Greater(best.score, Threshold) THEN best.match ELSE NoSong

InitMatch ==
    /\ matched = FALSE
    /\ matchQuery = "none"
    /\ matchFiles = <<>>
    /\ matchOut = NoSong

\* song = find_best_match(query, self.music_files)
MatchSong(q, lib) ==
    /\ ~matched
    /\ matched' = TRUE
    /\ matchQuery' = q
    /\ matchFiles' = lib
    /\ matchOut' = find_best_match(QueryText(q), lib)
    /\ UNCHANGED <<motorVars, frameVars, cmdVars, popVars, histVars, parseVars,
                   visVars, srvVars, musVars, playVars, speaking, gate>>

MatchAny == \E q \in SongQueries, lib \in Libraries : MatchSong(q, lib)
NextMatch == MatchAny

-----------------------------------------------------------------------------
(* PlaybackEngine's operations: MusicPlayerThread.play, pause, stop, volume  *)

\* self.player: None until _init_vlc has made it; state is what get_state()
\* returns, media the song handed to set_media, at whether the song is at
\* its start or further on
NoPlayer ==
    [made |-> FALSE, state |-> "NothingSpecial", media |-> NoSong, at |-> "start",
     volume |-> 0]

\* the fields of the thread object the operations read and write
Self ==
    [player |-> player, current_song |-> current_song,
     current_volume |-> current_volume, music_files |-> music_files]

\* play(query); an empty or absent query is <<>>
play_AlwaysFresh(self, query) ==
    IF ~self.player.made THEN self
    ELSE LET song == IF query # <<>> THEN find_best_match(query, self.music_files)
                     ELSE IF self.music_files # <<>> THEN 1
                     ELSE NoSong
         IN  IF song = NoSong THEN self
             ELSE [self EXCEPT !.player.media = song, !.player.state = "Playing",
                               !.player.at = "start", !.current_song = song]

play(self, query) ==
    IF ~self.player.made THEN self
    ELSE IF query = <<>> /\ self.current_song # NoSong /\ self.player.state = "Paused"
    THEN [self EXCEPT !.player.state = "Playing"]
    ELSE LET song == IF query # <<>> THEN find_best_match(query, self.music_files)
                     ELSE IF self.music_files # <<>> THEN 1
                     ELSE NoSong
         IN  IF song = NoSong THEN self
             ELSE [self EXCEPT !.player.media = song, !.player.state = "Playing",
                               !.player.at = "start", !.current_song = song]

\* pause(): libvlc's pause toggles between playing and paused
pause(self) ==
    IF ~self.player.made THEN self
    ELSE IF self.player.state = "Playing" THEN [self EXCEPT !.player.state = "Paused"]
    ELSE IF self.player.state = "Paused" THEN [self EXCEPT !.player.state = "Playing"]
    ELSE self

\* self.player.stop()
PlayerStop(p) == [p EXCEPT !.state = "Stopped", !.at = "start"]

\* stop()
stop(self) ==
    IF ~self.player.made THEN self
    ELSE [self EXCEPT !.player = PlayerStop(self.player), !.current_song = NoSong]

VolumeStep == 10
VolumeMax == 100
VolumeMin == 0
DefaultVolume == 70

\* volume_up(step=10), volume_down(step=10)
volume_up_Unclamped(self) ==
    IF ~self.player.made THEN self
    ELSE LET v == self.current_volume + VolumeStep
         IN  [self EXCEPT !.current_volume = v, !.player.volume = v]

volume_up(self) ==
    IF ~self.player.made THEN self
    ELSE LET v == IF self.current_volume + VolumeStep > VolumeMax THEN VolumeMax
                  ELSE self.current_volume + VolumeStep
         IN  [self EXCEPT !.current_volume = v, !.player.volume = v]

volume_down(self) ==
    IF ~self.player.made THEN self
    ELSE LET v == IF self.current_volume - VolumeStep < VolumeMin THEN VolumeMin
                  ELSE self.current_volume - VolumeStep
         IN  [self EXCEPT !.current_volume = v, !.player.volume = v]

\* _process_command(command)
process_command(self, m) ==
    IF m.action = "play" THEN play(self, QueryText(m.query))
    ELSE IF m.action = "pause" THEN pause(self)
    ELSE IF m.action = "stop" THEN stop(self)
    ELSE IF m.action = "volume_up" THEN volume_up(self)
    ELSE IF m.action = "volume_down" THEN volume_down(self)
    ELSE self

-----------------------------------------------------------------------------
(* PlaybackEngine's thread: music_player.MusicPlayerThread.run              *)

InitMusic ==
    /\ musPc = "init"
    /\ musCommand = NoMessage
    /\ musLate = FALSE

\* MusicPlayerThread.__init__
InitPlay ==
    /\ player = NoPlayer
    /\ current_song = NoSong
    /\ current_volume = DefaultVolume
    /\ music_files = <<>>
    /\ processed = <<>>
    /\ lastOp = NoOp
    /\ playerWriters = {}

\* the song index of the runs in which the library does not matter
PlainLibrary == << <<"J", "a", "z", "z">>, <<"B", "l", "u", "e", "s">> >>

\* _init_vlc() succeeds: the player is made and set to the default volume ;
\* _index_library() finds the songs lib
MusicInitOk(lib) ==
    /\ musPc = "init"
    /\ musPc' = "check"
    /\ player' = [NoPlayer EXCEPT !.made = TRUE, !.volume = current_volume]
    /\ music_files' = lib
    /\ playerWriters' = playerWriters \cup {"playback"}
    /\ UNCHANGED <<current_song, current_volume, processed, lastOp>>
    /\ UNCHANGED <<musCommand, musLate>>
    /\ UNCHANGED <<motorVars, frameVars, cmdVars, popVars, histVars, parseVars,
                   visVars, srvVars, speaking, gate, matchVars>>

\* VLC is missing or fails to start: run returns
MusicInitFail ==
    /\ musPc = "init"
    /\ musPc' = "disabled"
    /\ UNCHANGED <<musCommand, musLate>>
    /\ UNCHANGED <<motorVars, frameVars, cmdVars, popVars, histVars, parseVars,
                   visVars, srvVars,
                   lateVars>>

\* while self._running: the thread's own flag, which only
\* MusicPlayerThread.shutdown clears
PlaybackLoopTest_Always == TRUE

PlaybackLoopTest == music_running

MusicCheck ==
    /\ musPc = "check"
    /\ musPc' = IF PlaybackLoopTest THEN "get" ELSE "cleanup"
    /\ musLate' = (musLate \/ (PlaybackLoopTest /\ ~_running))
    /\ UNCHANGED musCommand
    /\ UNCHANGED <<motorVars, frameVars, cmdVars, popVars, histVars, parseVars,
                   visVars, srvVars,
                   lateVars>>

\* the fields of the thread object become those of the record self
SetSelf(self) ==
    /\ player' = self.player
    /\ current_song' = self.current_song
    /\ current_volume' = self.current_volume
    /\ music_files' = self.music_files

\* command = self.command_queue.get(timeout=0.5) ; self._process_command(command)
\* or, on an empty queue, Empty after the timeout
MusicGet ==
    /\ musPc = "get"
    /\ IF music_cmd_queue # <<>>
       THEN /\ musCommand' = Head(music_cmd_queue)
            /\ music_cmd_queue' = Tail(music_cmd_queue)
            /\ SetSelf(process_command(Self, Head(music_cmd_queue)))
            /\ processed' = Append(processed, Head(music_cmd_queue))
            /\ lastOp' = [msg |-> Head(music_cmd_queue), before |-> Self]
            /\ playerWriters' = playerWriters \cup {"playback"}
       ELSE UNCHANGED <<musCommand, music_cmd_queue, playVars>>
    /\ musPc' = "check"
    /\ UNCHANGED musLate
    /\ UNCHANGED <<_command_queue, _running, _tracking_enabled, voicePc,
                   voice_running, recognizer, routerPc, command, music_running,
                   greetings, shutPc, pushed, dispatched>>
    /\ UNCHANGED <<motorVars, frameVars, popVars, histVars, parseVars, visVars, srvVars,
                   speaking, gate, matchVars>>

\* after the loop: if self.player: self.player.stop()
MusicCleanup_NoStop ==
    /\ musPc = "cleanup"
    /\ musPc' = "done"
    /\ lastOp' = NoOp
    /\ UNCHANGED <<player, playerWriters, current_song, current_volume, music_files,
                   processed>>
    /\ UNCHANGED <<musCommand, musLate>>
    /\ UNCHANGED <<motorVars, frameVars, cmdVars, popVars, histVars, parseVars,
                   visVars, srvVars, speaking, gate, matchVars>>

MusicCleanup ==
    /\ musPc = "cleanup"
    /\ musPc' = "done"
    /\ player' = IF player.made THEN PlayerStop(player) ELSE player
    /\ playerWriters' = playerWriters \cup {"playback"}
    /\ lastOp' = NoOp
    /\ UNCHANGED <<current_song, current_volume, music_files, processed>>
    /\ UNCHANGED <<musCommand, musLate>>
    /\ UNCHANGED <<motorVars, frameVars, cmdVars, popVars, histVars, parseVars,
                   visVars, srvVars, speaking, gate, matchVars>>

\* _process_command(m) on its own: an operation of PlaybackEngine applied to
\* the thread object, whether or not the backend came up
ProcessCommand(m) ==
    /\ musPc \in {"check", "disabled"}
    /\ SetSelf(process_command(Self, m))
    /\ lastOp' = [msg |-> m, before |-> Self]
    /\ playerWriters' = IF player.made THEN playerWriters \cup {"playback"}
                        ELSE playerWriters
    /\ UNCHANGED processed
    /\ UNCHANGED <<motorVars, frameVars, cmdVars, popVars, histVars, parseVars,
                   visVars, srvVars, musVars, speaking, gate, matchVars>>

\* VLC plays on: the song is no longer at its start
SongAdvances ==
    /\ player.made /\ player.state = "Playing" /\ player.at = "start"
    /\ player' = [player EXCEPT !.at = "later"]
    /\ lastOp' = NoOp
    /\ UNCHANGED <<current_song, current_volume, music_files, processed, playerWriters>>
    /\ UNCHANGED <<motorVars, frameVars, cmdVars, popVars, histVars, parseVars,
                   visVars, srvVars, musVars, speaking, gate, matchVars>>

\* VLC reaches the end of the song
SongEnds ==
    /\ player.made /\ player.state = "Playing"
    /\ player' = [player EXCEPT !.state = "Ended"]
    /\ lastOp' = NoOp
    /\ UNCHANGED <<current_song, current_volume, music_files, processed, playerWriters>>
    /\ UNCHANGED <<motorVars, frameVars, cmdVars, popVars, histVars, parseVars,
                   visVars, srvVars, musVars, speaking, gate, matchVars>>

\* the messages _process_command is called with
PlayerQueries == {"none", "jazz", "za"}
PlayerMessages ==
    {[action |-> "play", query |-> q, id |-> 0] : q \in PlayerQueries}
    \cup {[action |-> a, query |-> "none", id |-> 0] :
            a \in {"pause", "stop", "volume_up", "volume_down", "rewind"}}

\* the song indexes the operations are tried on: none, one without a name
\* like the queries, a near miss before the song asked for, the plain one
PlayerLibraries ==
    { <<>>,
      << <<"b", "l", "u", "e", "j", "a", "z", "z">> >>,
      << <<"j", "a", "x", "z">>, <<"J", "a", "z", "z">> >>,
      PlainLibrary }

MusicStarts == \E lib \in PlayerLibraries : MusicInitOk(lib)
MusicStartsPlain == MusicInitOk(PlainLibrary)
ProcessesCommand == \E m \in PlayerMessages : ProcessCommand(m)

\* the operations of PlaybackEngine, called one after another
NextPlayer ==
    \/ MusicStarts
    \/ MusicInitFail
    \/ ProcessesCommand
    \/ SongAdvances
    \/ SongEnds

\* commands arriving on the queue, the router, the playback thread, shutdown
NextPlayback ==
    \/ ProducerPuts
    \/ RouterCheck
    \/ RouterGet
    \/ RouterDispatch
    \/ MusicStartsPlain
    \/ MusicInitFail
    \/ MusicCheck
    \/ MusicGet
    \/ MusicCleanup
    \/ ShutdownBegin
    \/ ShutdownVoice
    \/ ShutdownMusic
    \/ ShutdownMotors

-----------------------------------------------------------------------------
(* All the long-lived loops side by side, and shutdown                      *)

\* one frame without a face, one viewer of the stream, and a silent
\* microphone are enough to take every loop through its iteration
VisionReadsPlain == \E k \in {CHOOSE i \in Images : TRUE} : VisionRead(k, <<>>)
ViewerConnects == ClientConnect(Caller, "/stream")

NextLoops ==
    \/ VisionCheck
    \/ VisionReadFail
    \/ VisionReadsPlain
    \/ VisionAct
    \/ VisionPublish
    \/ VisionFinally
    \/ VoiceSetupOk
    \/ VoiceSetupFail
    \/ VoiceTop
    \/ VoiceStreamLeave
    \/ RouterCheck
    \/ RouterGet
    \/ ViewerConnects
    \/ ServerCheck
    \/ ServerAccept
    \/ ServeLoop
    \/ ServeGetEnter
    \/ ServeGetCopy
    \/ ServeGetExit
    \/ ServeFrame
    \/ MusicStartsPlain
    \/ MusicInitFail
    \/ MusicCheck
    \/ MusicGet
    \/ MusicCleanup
    \/ ShutdownBegin
    \/ ShutdownVoice
    \/ ShutdownMusic
    \/ ShutdownMotors

-----------------------------------------------------------------------------
(* process_commands on its own, fed any command dicts, and shutdown         *)

\* command dicts that parse_command never makes but put_command accepts: an
\* unknown type, a tracking action other than on / off, a volume action
\* other than up / down
OddCommands ==
    {Cmd("dance", "go", "none"), Cmd("tracking", "toggle", "none"),
     Cmd("volume", "mute", "none")}
AnyCommands == ParsedCommands \cup OddCommands

PutsAny == \E c \in AnyCommands : ProducerPut(c)

NextRouter ==
    \/ PutsAny
    \/ RouterCheck
    \/ RouterGet
    \/ RouterDispatch
    \/ SpeechEnds
    \/ ShutdownBegin
    \/ ShutdownVoice
    \/ ShutdownMusic
    \/ ShutdownMotors

-----------------------------------------------------------------------------
(* Specifications                                                           *)

Init ==
    /\ InitMotor /\ InitFrame /\ InitCmd /\ InitPop /\ InitHist
    /\ InitParse /\ InitVision /\ InitServer /\ InitMusic
    /\ InitPlay /\ InitSpeech /\ InitGate /\ InitMatch

Spec == Init /\ [][Next]_vars

SpecMotor == Init /\ [][NextMotor]_vars
SpecFrame == Init /\ [][NextFrame]_vars
SpecFrameApi == Init /\ [][NextFrameApi]_vars
SpecPop == Init /\ [][NextPop]_vars
SpecParse == Init /\ [][NextParse]_vars
SpecVision == Init /\ [][NextVision]_vars
SpecStream == Init /\ [][NextStream]_vars
SpecPlayback == Init /\ [][NextPlayback]_vars
SpecLoops == Init /\ [][NextLoops]_vars
SpecMatch == Init /\ [][NextMatch]_vars
SpecPlayer == Init /\ [][NextPlayer]_vars
SpecRouter == Init /\ [][NextRouter]_vars

\* the server thread is scheduled and gets the frame lock, and VisionLoop
\* keeps publishing; nothing obliges a viewer to connect or to go away, or a
\* signal to arrive
SpecStreamFair ==
    /\ SpecStream
    /\ WF_vars(ServerCheck) /\ WF_vars(ServerAccept) /\ WF_vars(ServeLoop)
    /\ SF_vars(ServeGetEnter) /\ WF_vars(ServeGetCopy) /\ WF_vars(ServeGetExit)
    /\ WF_vars(ServeFrame)
    /\ WF_vars(PublisherCapture) /\ SF_vars(SetFrameEnter)
    /\ WF_vars(SetFrameStore) /\ WF_vars(SetFrameExit)

\* a caller that can return is scheduled and does return; nothing obliges a
\* producer to put a command
SpecPopFair == SpecPop /\ WF_vars(PopReturn) /\ WF_vars(PopAgain)

-----------------------------------------------------------------------------
(* Claims about the motor controller                                        *)

Reverse == -MOTOR_SPEED
Forward == MOTOR_SPEED
Stop == 0

Abs(x) == IF x < 0 THEN -x ELSE x

Controlled == lastCall.op = "control" /\ MOTOR_AVAILABLE

\* C6: with available hardware, after control_motors(dx, dy) with
\* |dx| <= DEAD_ZONE and |dy| <= DEAD_ZONE both axes are stop, whatever they
\* were before the call.
C6_DeadZoneStops ==
    (Controlled /\ Abs(lastCall.dx) <= DEAD_ZONE /\ Abs(lastCall.dy) <= DEAD_ZONE)
        => (actuator.m1 = Stop /\ actuator.m2 = Stop)

C6_Witness ==
    /\ Controlled
    /\ lastCall.dx = DEAD_ZONE /\ lastCall.dy = -DEAD_ZONE
    /\ before.m1 = Forward /\ before.m2 = Reverse
    /\ actuator.m1 = Stop /\ actuator.m2 = Stop

\* C7: with available hardware, after control_motors(dx, dy) the horizontal
\* axis is reverse when dx > DEAD_ZONE, forward when dx < -DEAD_ZONE and stop
\* otherwise (dx = DEAD_ZONE and dx = -DEAD_ZONE included), whatever dy is.
C7_HorizontalMapping ==
    Controlled =>
        /\ (lastCall.dx > DEAD_ZONE) => actuator.m1 = Reverse
        /\ (lastCall.dx < -DEAD_ZONE) => actuator.m1 = Forward
        /\ (Abs(lastCall.dx) <= DEAD_ZONE) => actuator.m1 = Stop

C7_Witness ==
    /\ Controlled
    /\ lastCall.dx = DEAD_ZONE + 1 /\ lastCall.dy = -(DEAD_ZONE + 1)
    /\ actuator.m1 = Reverse
    /\ before.m1 = Forward

\* C8 as stated: the vertical axis follows the same convention as the
\* horizontal one: reverse for dy > DEAD_ZONE, forward for dy < -DEAD_ZONE.
C8_VerticalAsStated ==
    Controlled =>
        /\ (lastCall.dy > DEAD_ZONE) => actuator.m2 = Reverse
        /\ (lastCall.dy < -DEAD_ZONE) => actuator.m2 = Forward
        /\ (Abs(lastCall.dy) <= DEAD_ZONE) => actuator.m2 = Stop

\* C8 as the code has it: the vertical axis has the opposite sign convention:
\* forward for dy > DEAD_ZONE, reverse for dy < -DEAD_ZONE, stop otherwise; the
\* horizontal axis is reverse / forward / stop as in C7.
C8_VerticalMapping ==
    Controlled =>
        /\ (lastCall.dy > DEAD_ZONE) => actuator.m2 = Forward
        /\ (lastCall.dy < -DEAD_ZONE) => actuator.m2 = Reverse
        /\ (Abs(lastCall.dy) <= DEAD_ZONE) => actuator.m2 = Stop
        /\ (lastCall.dx > DEAD_ZONE) => actuator.m1 = Reverse
        /\ (lastCall.dx < -DEAD_ZONE) => actuator.m1 = Forward

C8_Witness ==
    /\ Controlled
    /\ lastCall.dy = DEAD_ZONE + 1 /\ lastCall.dx = DEAD_ZONE + 1
    /\ actuator.m2 = Forward /\ actuator.m1 = Reverse
    /\ before.m2 = Reverse

\* C9: stop_motors leaves both axes stop when the hardware is available,
\* whatever they were; a second stop_motors in a row changes nothing; and no
\* stop_motors call raises, with or without hardware.
C9_StopIdempotent ==
    (lastCall.op = "stop") =>
        /\ MOTOR_AVAILABLE => (actuator.m1 = Stop /\ actuator.m2 = Stop)
        /\ (stopStreak >= 2) => actuator = before
        /\ ~actuator.raised

C9_Witness ==
    /\ lastCall.op = "stop" /\ MOTOR_AVAILABLE
    /\ stopStreak = 1
    /\ before.m1 = Reverse /\ before.m2 = Forward
    /\ actuator.m1 = Stop /\ actuator.m2 = Stop

\* C10: when MOTOR_AVAILABLE is false, every control_motors and stop_motors
\* call leaves the actuator state as it was and raises nothing.
C10_UnavailableNoOp ==
    (~MOTOR_AVAILABLE /\ lastCall.op # "none") =>
        (actuator = before /\ ~actuator.raised)

C10_Witness ==
    /\ ~MOTOR_AVAILABLE
    /\ lastCall.op = "control" /\ lastCall.dx > DEAD_ZONE /\ lastCall.dy < -DEAD_ZONE
    /\ actuator = before

-----------------------------------------------------------------------------
(* Claims about the latest-frame cell                                       *)

IsWhole(px) == \E k \in Images : px = Whole(k)

\* C3: the cell always holds exactly the pixels last passed to set_frame,
\* whatever a caller has since written into the buffers get_frame handed out;
\* and each value get_frame returns equals those pixels and is a buffer of its
\* own, neither the cell's nor the publisher's.
C3_FrameRoundTrip ==
    /\ (_frame # None) => heap[_frame] = stored
    /\ (_frame = None) <=> (stored = <<>>)
    /\ (rpc[Caller] = "got") =>
        /\ got[Caller].val = got[Caller].cell
        /\ (held[Caller] # None) => held[Caller] \notin {_frame, vframe}

\* a caller has written into the copy it got earlier, and its next get_frame
\* has copied the cell again
C3_Witness ==
    /\ rpc[Caller] = "copied"
    /\ held[Caller] # None /\ rtmp[Caller] # None
    /\ heap[held[Caller]] = [i \in 1..NPix |-> Scribble]
    /\ heap[rtmp[Caller]] = stored
    /\ IsWhole(stored)

\* C4: a get_frame returns None exactly when no set_frame has completed, and
\* otherwise the whole frame passed to the most recently completed set_frame,
\* for every reader under every interleaving.
C4_LatestWholeFrame ==
    \A r \in Readers :
        (rpc[r] = "got") =>
            /\ (got[r].val = <<>>) <=> (got[r].latest = <<>>)
            /\ got[r].val = got[r].latest
            /\ (got[r].val # <<>>) => IsWhole(got[r].val)

\* two readers hold different frames while a set_frame is in flight
C4_Witness ==
    /\ \E r1, r2 \in Readers :
        /\ rpc[r1] = "got" /\ rpc[r2] = "got"
        /\ got[r1].val # <<>> /\ got[r2].val # <<>>
        /\ got[r1].val # got[r2].val
    /\ vpc = "stored"

-----------------------------------------------------------------------------
(* Claims about the command queue                                           *)

\* the commands process_commands has taken off the queue, in order
Popped == dispatched \o (IF routerPc = "dispatch" THEN <<command>> ELSE <<>>)

\* C1: the commands CommandRouter has dequeued, in the order it dequeued
\* them, are the first commands VoiceLoop pushed, in the order it pushed them.
C1_Fifo ==
    /\ Len(Popped) <= Len(pushed)
    /\ \A i \in 1..Len(Popped) : Popped[i] = pushed[i]

C1_Witness ==
    /\ Len(dispatched) = MaxPushed
    /\ dispatched = pushed
    /\ \A i, j \in 1..Len(dispatched) : i # j => dispatched[i].type # dispatched[j].type

\* C2 as stated: once process_commands has returned, every pushed command
\* has been dispatched and none is left on the queue.
C2_NothingLost ==
    (routerPc = "done") => (Len(dispatched) = Len(pushed) /\ _command_queue = <<>>)

\* C2 as the code has it: no command is dispatched twice, every dequeued
\* command is dispatched, and every pushed command is at any time either
\* dispatched, being dispatched, or still on the queue; the commands on the
\* queue when process_commands sees the cleared flag stay there undispatched.
C2_AtMostOnce ==
    /\ \A i, j \in 1..Len(dispatched) : i # j => dispatched[i].id # dispatched[j].id
    /\ pushed = Popped \o _command_queue
    /\ (routerPc = "done") => (pushed = dispatched \o _command_queue)

\* the router has returned with one command dispatched and one left behind
C2_Witness ==
    /\ routerPc = "done"
    /\ Len(dispatched) = 1
    /\ Len(_command_queue) = 1
    /\ Len(pushed) = 2

\* C5: every get_command call returns, whatever timeout argument it was
\* given and whether or not a command ever arrives.
C5_GetCommandReturns ==
    (popPc = "waiting") ~> (popPc = "returned")

-----------------------------------------------------------------------------
(* Claims about the command router                                          *)

\* the positions in the dispatch history of the tracking on / off commands
TrackingDispatches ==
    {i \in 1..Len(dispatched) :
        dispatched[i].type = "tracking" /\ dispatched[i].action \in {"on", "off"}}

\* C20: the tracking-enabled flag is true when the last tracking on / off
\* command dispatched was "on", false when it was "off", whatever it was
\* before, and true while none has been dispatched.
C20_TrackingFollowsLastCommand ==
    IF TrackingDispatches = {}
    THEN _tracking_enabled = TRUE
    ELSE LET last == CHOOSE i \in TrackingDispatches :
                         \A j \in TrackingDispatches : j <= i
         IN  _tracking_enabled = (dispatched[last].action = "on")

\* tracking was switched off and then on again
C20_Witness ==
    /\ Len(dispatched) = 2
    /\ dispatched[1].type = "tracking" /\ dispatched[1].action = "off"
    /\ dispatched[2].type = "tracking" /\ dispatched[2].action = "on"
    /\ _tracking_enabled

-----------------------------------------------------------------------------
(* Claims about VoiceLoop                                                   *)

\* C17: a stream failure never ends VoiceLoop and never leaves it with the
\* recognizer that was in use when the stream raised: the thread is stopped
\* only when a running flag is cleared, every failure is followed by a
\* backoff and a fresh recognizer before the stream is open again, failure
\* after failure, and commands heard afterwards are pushed with the fresh one.
C17_VoiceSelfHealing ==
    /\ (voicePc = "stopped") => ~(voice_running /\ _running)
    /\ (voicePc \in {"top", "streaming", "stopped"}) => recognizer \notin corrupt
    /\ (voicePc = "backoff") => recognizer \in corrupt
    /\ (pushed # <<>>) => (heardWith = recognizer \/ heardWith \in corrupt)
    /\ (pushed # <<>>) => heardWith > 0

\* two consecutive failures, then a command is heard and pushed
C17_Witness ==
    /\ Cardinality(corrupt) = 2
    /\ voicePc = "streaming"
    /\ voice_running /\ _running
    /\ pushed # <<>>
    /\ heardWith = recognizer
    /\ recognizer \notin corrupt

-----------------------------------------------------------------------------
(* Claims about parse_command                                               *)

\* the text as the rules see it: lower-cased and trimmed
Normal == Strip(Lower(parseText))

\* C18: a text that, lower-cased and trimmed, begins with "play" parses to
\* Music / play whose query is the trimmed remainder after "play", or none
\* when the remainder is empty, whatever follows "play".
C18_PlayPrefix ==
    /\ (parsed /\ StartsWith(Normal, PlayWord)) =>
           /\ parseOut.type = "music" /\ parseOut.action = "play"
           /\ LET rest == Strip(SubSeq(Normal, 5, Len(Normal)))
              IN  IF rest = <<>> THEN parseOut.query = NoQuery
                  ELSE parseOut.query = rest
    /\ (parsed /\ parseText = <<"P", "L", "A", "Y", " ", "s", "o", "m", "e", " ", "j", "a", "z", "z">>)
           => parseOut.query = <<"s", "o", "m", "e", " ", "j", "a", "z", "z">>
    /\ (parsed /\ parseText = PlayWord) => parseOut.query = NoQuery

\* "play" followed by more words, with stray whitespace and capitals
C18_Witness ==
    /\ parsed
    /\ parseText = <<"P", "L", "A", "Y", " ", "s", "o", "m", "e", " ", "j", "a", "z", "z">>
    /\ parseOut = ParsedCmd("music", "play", <<"s", "o", "m", "e", " ", "j", "a", "z", "z">>)

\* a text that some rule of the parser recognises
Recognised(text) ==
    \/ text \in GreetingPhrases \cup PausePhrases \cup StopPhrases
    \/ StartsWith(text, PlayWord)
    \/ ReMatch(VolumeUpPatterns \cup VolumeDownPatterns, text)
    \/ ReMatch(TrackingOnPatterns \cup TrackingOffPatterns, text)

\* C19: parse_command returns Greeting exactly for the texts that, lower-cased
\* and trimmed, are "hello", "hi", "hey" or "hello debo"; it returns no command
\* for an empty or whitespace-only text and for a text that matches no
\* recognised phrase, such as "hello world".
C19_GreetingExact ==
    parsed =>
        /\ (parseOut.type = "greeting") <=> (Normal \in GreetingPhrases)
        /\ (parseOut.type = "greeting") => parseOut = ParsedCmd("greeting", "hello", NoQuery)
        /\ (\A i \in 1..Len(parseText) : parseText[i] \in Whitespace) => parseOut = NoParse
        /\ ~Recognised(Normal) => parseOut = NoParse
        /\ (parseText = <<"H", "e", "l", "l", "o", " ", "W", "o", "r", "l", "d">>)
               => parseOut = NoParse

\* "Hello World" was parsed, and gave no command
C19_Witness ==
    /\ parsed
    /\ parseText = <<"H", "e", "l", "l", "o", " ", "W", "o", "r", "l", "d">>
    /\ parseOut = NoParse

StopTracking == <<"s", "t", "o", "p", " ", "t", "r", "a", "c", "k", "i", "n", "g">>

\* C29: the whole texts stop, stop music, stop it and stop playing parse to
\* Music / stop; stop tracking and the other off phrases (tracking off, disable
\* tracking, don't track) parse to Tracking / off, never to Music / stop; the
\* on phrases (tracking on, enable tracking, start tracking, track me) parse to
\* Tracking / on.
C29_StopBeforeTracking ==
    parsed =>
        /\ (Normal \in StopPhrases) => parseOut = ParsedCmd("music", "stop", NoQuery)
        /\ (Normal \in TrackingOffPatterns) => parseOut = ParsedCmd("tracking", "off", NoQuery)
        /\ (Normal \in TrackingOnPatterns) => parseOut = ParsedCmd("tracking", "on", NoQuery)
        /\ (parseText = StopTracking) =>
               (parseOut.type = "tracking" /\ parseOut.action = "off")
        /\ (parseOut.type = "music" /\ parseOut.action = "stop") => Normal \in StopPhrases

\* "stop tracking" was parsed, and switched tracking off
C29_Witness ==
    /\ parsed
    /\ parseText = StopTracking
    /\ parseOut = ParsedCmd("tracking", "off", NoQuery)

-----------------------------------------------------------------------------
(* Claims about VisionLoop                                                  *)

StopCall == [op |-> "stop", dx |-> 0, dy |-> 0]

\* the current iteration has made its motor call
Acted == iter.captured /\ visPc \in {"publish", "check", "finally", "done"}

\* C11: an iteration that captured a frame and detected no face calls
\* stop_motors, whatever the actuators did before and whatever the tracking
\* flag is, so both axes are at stop when its frame is published.
C11_NoFaceStops ==
    /\ (Acted /\ iter.nfaces = 0) => iter.call = StopCall
    /\ (visPc = "publish" /\ iter.nfaces = 0) => (actuator.m1 = Stop /\ actuator.m2 = Stop)
    /\ (iter.published /\ iter.nfaces = 0) => (iter.m1 = Stop /\ iter.m2 = Stop)

\* both axes were driven, tracking is on, and the frame without a face has
\* been published with the axes stopped
C11_Witness ==
    /\ MOTOR_AVAILABLE
    /\ iter.published /\ iter.nfaces = 0
    /\ iter.prior.m1 # Stop /\ iter.prior.m2 # Stop
    /\ _tracking_enabled
    /\ iter.m1 = Stop /\ iter.m2 = Stop

\* C12: an iteration that detects a face and reads the tracking flag as
\* disabled does not call control_motors, calls stop_motors, and still
\* publishes its annotated frame.
C12_TrackingOffStops ==
    (iter.tracking = "off") =>
        /\ iter.nfaces > 0
        /\ iter.call = StopCall
        /\ iter.box # NoBox
        /\ visPc = "publish" \/ iter.published
        /\ iter.published => (_frame # None /\ stored = Whole(iter.image))

\* a face was boxed with tracking off: the driven axes were stopped and the
\* frame is in the cell
C12_Witness ==
    /\ MOTOR_AVAILABLE
    /\ iter.tracking = "off"
    /\ iter.prior.m1 # Stop
    /\ actuator.m1 = Stop /\ actuator.m2 = Stop
    /\ iter.published
    /\ heap[_frame] = Whole(iter.image)

\* C13: once VisionLoop has exited and shutdown() has returned, both axes
\* are at stop and stay there, however the handler's steps fell between the
\* steps of the iteration that was in flight.
C13_StoppedAfterShutdown ==
    (visPc = "done" /\ shutPc = "done") => (actuator.m1 = Stop /\ actuator.m2 = Stop)

\* the in-flight iteration drove an axis after the handler's stop_motors,
\* and the loop's exit stopped it
C13_Witness ==
    /\ MOTOR_AVAILABLE
    /\ visPc = "done" /\ shutPc = "done" /\ mainPc = "vision"
    /\ iter.late /\ iter.call.op = "control"
    /\ before.m1 # Stop
    /\ lastCall.op = "stop"
    /\ actuator.m1 = Stop /\ actuator.m2 = Stop

-----------------------------------------------------------------------------
(* Claims about StreamServer                                                *)

\* C15: once the running flag is cleared, run_web_server leaves its accept
\* loop and closes the server, whether or not a viewer ever connects again.
C15_AcceptLoopTerminates ==
    (~_running) ~> (srvPc = "closed")

\* C16: viewers are served independently of one another: while the flag is
\* set, a viewer that has asked for the stream comes to be served, even while
\* another viewer is being streamed to.
C16_ViewersIndependent ==
    \A c \in Clients :
        [](((conn[c] = "pending" /\ path[c] = "/stream") /\ _running)
              => <>(conn[c] # "pending" \/ ~_running))

-----------------------------------------------------------------------------
(* Claims about shutdown of the loops                                       *)

\* how far each loop is from having returned: the steps it still takes when
\* its loop test fails at the next poll
VisionRank(pc) ==
    CASE pc = "done" -> 0 [] pc = "finally" -> 1 [] pc = "check" -> 2
      [] pc = "publish" -> 3 [] pc = "act" -> 4 [] pc = "read" -> 5
VoiceRank(pc) ==
    CASE pc \in {"stopped", "disabled"} -> 0 [] pc = "top" -> 1
      [] pc = "backoff" -> 2 [] pc = "streaming" -> 3 [] pc = "setup" -> 4
RouterRank(pc) ==
    CASE pc = "done" -> 0 [] pc = "check" -> 1 [] pc = "dispatch" -> 2
      [] pc = "get" -> 3
ClientRank(pc, sub) ==
    CASE pc \notin {"loop", "get"} -> 0 [] pc = "loop" -> 1
      [] pc = "get" /\ sub = "got" -> 2 [] pc = "get" /\ sub = "copied" -> 3
      [] pc = "get" /\ sub = "locked" -> 4 [] pc = "get" /\ sub = "idle" -> 5
PlaybackRank(pc) ==
    CASE pc \in {"done", "disabled"} -> 0 [] pc = "cleanup" -> 1
      [] pc = "check" -> 2 [] pc = "get" -> 3 [] pc = "init" -> 4

\* a step of the loop brings it nearer to its return
VisionWindsDown == (visPc' # visPc) => VisionRank(visPc') < VisionRank(visPc)
VoiceWindsDown == (voicePc' # voicePc) => VoiceRank(voicePc') < VoiceRank(voicePc)
RouterWindsDown == (routerPc' # routerPc) => RouterRank(routerPc') < RouterRank(routerPc)
ClientWindsDown ==
    (srvPc \in {"loop", "get"} /\ <<srvPc, rpc>>' # <<srvPc, rpc>>) =>
        ClientRank(srvPc', IF srvClient' \in Clients THEN rpc'[srvClient'] ELSE "idle")
            < ClientRank(srvPc, rpc[srvClient])
PlaybackWindsDown == (musPc' # musPc) => PlaybackRank(musPc') < PlaybackRank(musPc)

-----------------------------------------------------------------------------
(* Claims about song matching                                               *)

QueryLower == Lower(QueryText(matchQuery))
NameLower(i) == Lower(matchFiles[i])
Songs == 1..Len(matchFiles)

\* the song's name does not contain the query: only the similarity ratio
\* speaks for it
FuzzyOnly(i) == ~Contains(NameLower(i), QueryLower)

\* 2 M / T <= 0.3
RatioAtMostThreshold(i) ==
    10 * 2 * MatchingChars(QueryLower, NameLower(i))
        <= 3 * (Len(QueryLower) + Len(NameLower(i)))

\* C25: a query equal, case-insensitively, to a song's name scores higher
\* than any song that matches only fuzzily, and find_best_match then never
\* returns such a song; when no name contains the query and every ratio is at
\* most 0.3, find_best_match returns no match.
C25_ExactBeatsFuzzy ==
    (matched /\ QueryLower # <<>>) =>
        /\ \A i \in Songs :
               (NameLower(i) = QueryLower) =>
                   /\ \A j \in Songs :
                          FuzzyOnly(j) => Greater(SongScore(QueryLower, NameLower(i)),
                                                  SongScore(QueryLower, NameLower(j)))
                   /\ matchOut # NoSong
                   /\ ~FuzzyOnly(matchOut)
        /\ (\A i \in Songs : FuzzyOnly(i) /\ RatioAtMostThreshold(i)) => matchOut = NoSong

\* "jazz" was looked up in a library that holds "jaxz" before "Jazz", and
\* the second song came back
C25_Witness ==
    /\ matched
    /\ matchQuery = "jazz"
    /\ matchFiles = << <<"j", "a", "x", "z">>, <<"J", "a", "z", "z">> >>
    /\ matchOut = 2

-----------------------------------------------------------------------------
(* Claims about PlaybackEngine                                              *)

\* the last thing done to the thread object was _process_command with this
\* action, on a player that had been made
LastOp(action) == lastOp.msg.action = action /\ lastOp.before.player.made

\* C23: from the default volume 70, whatever volume_up and volume_down
\* commands (among the others) the engine has processed, its volume is within
\* 0..100 and is the one set on the player; each volume command changed it by
\* exactly 10, or left it at 100 or 0 when 10 more or less would leave the
\* range.
C23_VolumeInRange ==
    /\ current_volume \in VolumeMin..VolumeMax
    /\ player.made => player.volume = current_volume
    /\ LastOp("volume_up") =>
           current_volume = IF lastOp.before.current_volume + 10 <= 100
                            THEN lastOp.before.current_volume + 10 ELSE 100
    /\ LastOp("volume_down") =>
           current_volume = IF lastOp.before.current_volume - 10 >= 0
                            THEN lastOp.before.current_volume - 10 ELSE 0
    /\ lastOp.msg.action \notin {"volume_up", "volume_down", "none"} =>
           current_volume = lastOp.before.current_volume

\* the volume had been taken down to 0, and one more volume_down left it there
C23_Witness ==
    /\ LastOp("volume_down")
    /\ lastOp.before.current_volume = 0
    /\ current_volume = 0
    /\ player.volume = 0


\* the query of the last command and the song the index search gives for it
LastQuery == QueryText(lastOp.msg.query)
LastBest == find_best_match(LastQuery, lastOp.before.music_files)
ResumeCase ==
    /\ LastQuery = <<>>
    /\ lastOp.before.current_song # NoSong
    /\ lastOp.before.player.state = "Paused"

Adapted(c) ==
    CASE c.type = "music" -> <<[action |-> c.action, query |-> c.query, id |-> c.id]>>
      [] c.type = "volume" /\ c.action = "up" ->
             <<[action |-> "volume_up", query |-> "none", id |-> c.id]>>
      [] c.type = "volume" /\ c.action = "down" ->
             <<[action |-> "volume_down", query |-> "none", id |-> c.id]>>
      [] OTHER -> <<>>

RECURSIVE AdaptedAll(_)
AdaptedAll(cs) ==
    IF cs = <<>> THEN <<>> ELSE Adapted(Head(cs)) \o AdaptedAll(Tail(cs))

\* C21: the messages PlaybackEngine has processed, followed by those waiting
\* on its command channel, are exactly the adapted messages of the commands
\* the router has dequeued, one per music or volume up/down command, in the
\* order of dequeuing; the router dequeues in the order of pushing.
C21_ForwardedInOrder ==
    /\ processed \o music_cmd_queue = AdaptedAll(dispatched)
    /\ \A i \in 1..Len(dispatched) : dispatched[i] = pushed[i]
    /\ processed # <<>> => musCommand = processed[Len(processed)]

\* a play and a volume down were dequeued in this order, and the engine has
\* processed the play and then the volume_down
C21_Witness ==
    /\ Len(dispatched) = 2
    /\ dispatched[1].type = "music" /\ dispatched[1].action = "play"
    /\ dispatched[2].type = "volume" /\ dispatched[2].action = "down"
    /\ Len(processed) = 2
    /\ processed[1].action = "play" /\ processed[1].query = "jazz"
    /\ processed[2].action = "volume_down"
    /\ current_song = 1 /\ current_volume = 60


\* C26: when the playback backend is unavailable, a command waiting on the
\* engine's command channel can still be taken by the engine (its thread has
\* a step that leads to the take, as long as the engine has not been shut
\* down), the session and the volume are those of construction whatever was
\* handled, and the router goes on while the system runs.
C26_UnavailableBackendConsumes ==
    /\ (musPc = "disabled" /\ music_running /\ music_cmd_queue # <<>>)
           => ENABLED (MusicCheck \/ MusicGet)
    /\ ~player.made => /\ current_song = NoSong
                       /\ current_volume = DefaultVolume
                       /\ player = NoPlayer
    /\ (musPc = "disabled" /\ _running) => routerPc # "done"


\* C27: the playback session has at most one writer: the execution contexts
\* that have written the player (made it, set its media or volume, played,
\* paused or stopped it) are at most one, the PlaybackEngine thread.
C27_SingleWriter ==
    /\ Cardinality(playerWriters) <= 1
    /\ playerWriters \subseteq {"playback"}


-----------------------------------------------------------------------------
(* Claims about the tracking flag over time                                 *)

\* gate follows the tracking flag: "on" while it is set; once it is cleared,
\* "off", then "begun" when an iteration of VisionLoop has started after the
\* clearing, and "full" when that iteration has run to its end
C28_GateFollowsFlag == (gate = "on") <=> _tracking_enabled

\* the axes start to be driven only by the step of an iteration that reads
\* the flag as enabled
C28_DrivesOnlyWhenEnabled ==
    [][(actuator' # actuator /\ (actuator'.m1 # Stop \/ actuator'.m2 # Stop))
          => /\ visPc = "act"
             /\ _tracking_enabled
             /\ iter'.tracking = "on"
             /\ iter'.call.op = "control"]_vars

\* C28: VisionLoop calls control_motors only in an iteration in which it read
\* the tracking flag as enabled; and once the flag has been cleared and one
\* iteration begun after the clearing has run to its end, both axes are at
\* stop, and they are at stop in every later state in which the flag is still
\* cleared.
C28_TrackingGate ==
    /\ [](iter.call.op = "control" => iter.tracking = "on")
    /\ [](gate = "full" => (actuator.m1 = Stop /\ actuator.m2 = Stop))
    /\ []C28_GateFollowsFlag
    /\ C28_DrivesOnlyWhenEnabled

\* the flag was cleared while the axes were driven; the first iteration begun
\* after that found them still driven and has stopped them
C28_Witness ==
    /\ MOTOR_AVAILABLE
    /\ ~_tracking_enabled
    /\ gate = "full"
    /\ iter.published
    /\ iter.prior.m1 # Stop /\ iter.prior.m2 # Stop
    /\ actuator.m1 = Stop /\ actuator.m2 = Stop


-----------------------------------------------------------------------------
(* Claims about the router's dispatch                                       *)

\* the router's step that dispatches the command it dequeued
Dispatches == dispatched' = Append(dispatched, command)

\* a command no branch of the dispatch handles
Dropped(c) ==
    \/ c.type \notin {"greeting", "tracking", "music", "volume"}
    \/ c.type = "tracking" /\ c.action \notin {"on", "off"}
    \/ c.type = "volume" /\ c.action \notin {"up", "down"}

\* C22: dispatching a command of unknown type, a tracking command whose
\* action is neither on nor off, or a volume command whose action is neither
\* up nor down changes neither the tracking flag, nor the running flag, nor
\* the playback command channel, starts no greeting, and leaves the router at
\* the top of its loop, from where it goes on.
C22_UnknownDropped ==
    /\ [][(Dispatches /\ Dropped(command)) =>
             /\ _tracking_enabled' = _tracking_enabled
             /\ _running' = _running
             /\ music_cmd_queue' = music_cmd_queue
             /\ greetings' = greetings
             /\ routerPc' = "check"]_vars
    /\ [](routerPc = "check" => ENABLED RouterCheck)

\* a command of unknown type was dropped, and the tracking off that came
\* after it has been carried out
C22_Witness ==
    /\ Len(dispatched) = 2
    /\ dispatched[1].type = "dance"
    /\ dispatched[2].type = "tracking" /\ dispatched[2].action = "off"
    /\ ~_tracking_enabled
    /\ _running
    /\ music_cmd_queue = <<>>

\* C30: handling a greeting never holds the router up: the dispatch step of
\* a greeting starts the speech and is back at the top of the loop at once,
\* the router is never waiting for a speech to end, and its next step can be
\* taken whether or not a speech is going on.
C30_GreetingDoesNotBlock ==
    /\ [][(Dispatches /\ command.type = "greeting") =>
             /\ speaking' = speaking + 1
             /\ routerPc' = "check"]_vars
    /\ [](routerPc \in {"check", "get", "dispatch", "done"})
    /\ [](routerPc = "get" /\ _command_queue # <<>> => ENABLED RouterGet)
    /\ [](routerPc = "dispatch" => ENABLED RouterDispatch)

\* with the greeting still being spoken, the router has dequeued and carried
\* out the tracking off pushed after it
C30_Witness ==
    /\ speaking = 1
    /\ Len(dispatched) = 2
    /\ dispatched[1].type = "greeting"
    /\ dispatched[2].type = "tracking" /\ dispatched[2].action = "off"
    /\ ~_tracking_enabled


-----------------------------------------------------------------------------
(* Claims about face selection and capture failures                         *)

\* b is the box of fs of the largest area w*h, the first of those of that area
FirstOfLargest(b, fs) ==
    \E i \in 1..Len(fs) :
        /\ fs[i] = b
        /\ \A j \in 1..Len(fs) : fs[j][3] * fs[j][4] <= b[3] * b[4]
        /\ \A j \in 1..(i - 1) : fs[j][3] * fs[j][4] < b[3] * b[4]

\* the offset of the centre of box b from the centre of the frame
CentreOffset(b) ==
    [op |-> "control", dx |-> b[1] + b[3] \div 2 - 320, dy |-> b[2] + b[4] \div 2 - 240]

\* C31: when the detector returned one or more boxes, the box VisionLoop
\* outlines is the first of those of the largest area in the detector's
\* order, and the offset it hands to control_motors is that of this box's
\* centre.
C31_LargestFaceFirst ==
    /\ [](visPc = "act" /\ Len(faces) > 0 => FirstOfLargest(iter.box, faces))
    /\ [][(visPc = "act" /\ visPc' = "publish" /\ Len(faces) > 0
            /\ _tracking_enabled) =>
             \E b \in Boxes : /\ FirstOfLargest(b, faces)
                              /\ iter'.call = CentreOffset(b)
                              /\ lastCall' = CentreOffset(b)]_vars
    /\ [](iter.call.op = "control" => iter.call = CentreOffset(iter.box))

\* two boxes of the same area were detected, the one down and right first:
\* the motors were called with its offset
C31_Witness ==
    /\ iter.nfaces = 2
    /\ iter.box = <<500, 400, 60, 60>>
    /\ iter.call = [op |-> "control", dx |-> 210, dy |-> 190]
    /\ lastCall = iter.call


\* the step of an iteration whose cap.read() failed
CaptureFails == visPc = "read" /\ visPc' = "check" /\ iter' = NoIteration

\* C32: an iteration whose capture fails changes neither the frame cell nor
\* the actuators and makes no motor call, however many failures came before
\* it; from the top of the loop the next capture is tried as long as the
\* running flag is set, and a capture can always fail again.
C32_CaptureFailureHolds ==
    /\ [][CaptureFails =>
             /\ _frame' = _frame /\ heap' = heap /\ stored' = stored
             /\ completed' = completed
             /\ actuator' = actuator
             /\ lastCall' = lastCall
             /\ _running' = _running]_vars
    /\ [][(visPc = "check" /\ visPc' # "check") =>
             visPc' = IF _running THEN "read" ELSE "finally"]_vars
    /\ [](visPc = "read" => ENABLED VisionReadFail)

\* a frame had been published and both axes were driven when the capture
\* failed: the loop is at the next capture, the frame and the drive as the
\* last good iteration left them
C32_Witness ==
    /\ visPc = "read"
    /\ iter = NoIteration
    /\ MOTOR_AVAILABLE
    /\ _running
    /\ _frame # None /\ heap[_frame] = stored
    /\ lastCall.op = "control"
    /\ actuator.m1 # Stop /\ actuator.m2 # Stop


-----------------------------------------------------------------------------
(* Claims about the shutdown of PlaybackEngine                              *)

\* MusicPlayerThread.shutdown() has run on the main thread
EngineShutDown == shutPc \in {"motors", "done"}

\* C33: however shutdown() falls between the steps of the playback thread,
\* the thread's loop comes to its end (once its flag is cleared every step
\* takes it nearer to the return, and each of its steps can be taken: the
\* wait for a command returns even when none is queued), the
\* player is stopped when the thread has returned, and nothing starts
\* playback after that.
C33_ShutdownRace ==
    /\ [](EngineShutDown => ~music_running)
    /\ [][(~music_running /\ musPc' # musPc) =>
             PlaybackRank(musPc') < PlaybackRank(musPc)]_vars
    /\ [](musPc = "check" => ENABLED MusicCheck)
    /\ []((musPc = "get" /\ music_cmd_queue = <<>>) => ENABLED MusicGet)
    /\ [](musPc = "cleanup" => ENABLED MusicCleanup)
    /\ [](musPc = "done" => (player.made /\ player.state = "Stopped"))
    /\ [][musPc = "done" => player'.state = "Stopped"]_vars

\* shutdown() stopped the player while the thread was waiting for a command;
\* the thread then took the queued play and started the song again, and has
\* yet to find its flag cleared
C33_Witness ==
    /\ EngineShutDown
    /\ musPc = "check"
    /\ lastOp.msg.action = "play"
    /\ lastOp.before.player.state = "Stopped"
    /\ lastOp.before.current_song # NoSong
    /\ "main" \in playerWriters
    /\ player.state = "Playing"

====
